---------------------------- MODULE Spec2Model ----------------------------
(***************************************************************************)
(* A model of txm, a dispatcher that forwards session commands to tmux,    *)
(* zellij or GNU screen: the configuration loader, the availability        *)
(* prober, the backend selector, main, the config verbs, and the session,  *)
(* window and pane verbs with the backend adapters they call.              *)
(*                                                                         *)
(* Strings of the program are sequences of one-character strings, so that  *)
(* lower-casing, trimming, splitting and formatting are computed as the    *)
(* code computes them.                                                     *)
(***************************************************************************)
EXTENDS Integers, Sequences, FiniteSets, TLC

VARIABLES
    hostPath,    \* backends whose binary resolves through PATH (exec.LookPath)
    hostCommon,  \* backends whose binary sits at a well-known install location
    homeOK,      \* os.UserHomeDir succeeds
    envBackend,  \* value of TXM_DEFAULT_BACKEND ("" = unset)
    files,       \* the three config file locations, in lookup order
    pc,          \* position of the running process / of the function under test
    args,        \* os.Args[1..] after the verbose flag was stripped
    verbose,     \* -v / --verbose was given
    sm,          \* the SessionManager
    out,         \* what the process wrote (log lines and printed values)
    exitCode,    \* exit status; -1 while running
    spawned,     \* backend subprocesses started by the process, in order
    fnIn,        \* input of the function under test
    fnOut,       \* its result
    lastSet      \* backend of the last successful `config set backend`, as <<b>>

vars == <<hostPath, hostCommon, homeOK, envBackend, files, pc, args, verbose,
          sm, out, exitCode, spawned, fnIn, fnOut, lastSet>>

hostVars == <<hostPath, hostCommon, homeOK, envBackend, files>>

-----------------------------------------------------------------------------
(* Bounds of the model *)

\* longest fallback list handed to the selector
MaxOrderLen == 3

\* the highest number of a subprocess call that the environment can make
\* fail, and the most calls it makes fail in one run
MaxCalls == 8

MaxFailures == 2

\* the highest pane number typed by the user
MaxPane == 3

-----------------------------------------------------------------------------
(* Characters and strings *)

UpperChars == <<"A","B","C","D","E","F","G","H","I","J","K","L","M",
                "N","O","P","Q","R","S","T","U","V","W","X","Y","Z">>

LowerChars == <<"a","b","c","d","e","f","g","h","i","j","k","l","m",
                "n","o","p","q","r","s","t","u","v","w","x","y","z">>

ToLowerChar(c) ==
    IF \E i \in DOMAIN UpperChars : UpperChars[i] = c
    THEN LowerChars[CHOOSE i \in DOMAIN UpperChars : UpperChars[i] = c]
    ELSE c

ToUpperChar(c) ==
    IF \E i \in DOMAIN LowerChars : LowerChars[i] = c
    THEN UpperChars[CHOOSE i \in DOMAIN LowerChars : LowerChars[i] = c]
    ELSE c

\* strings.ToLower
ToLower(s) == [i \in 1..Len(s) |-> ToLowerChar(s[i])]

ToUpper(s) == [i \in 1..Len(s) |-> ToUpperChar(s[i])]

sTmux    == <<"t","m","u","x">>
sZellij  == <<"z","e","l","l","i","j">>
sScreen  == <<"s","c","r","e","e","n">>
sUnknown == <<"u","n","k","n","o","w","n">>
sBackend == <<"b","a","c","k","e","n","d">>
sDefaultBackend == <<"d","e","f","a","u","l","t","_">> \o sBackend

-----------------------------------------------------------------------------
(* Backend, Backend.String, ParseBackend *)

BackendTmux   == 0
BackendZellij == 1
BackendScreen == 2

Backends == {BackendTmux, BackendZellij, BackendScreen}

\* a Backend value outside the three constants, such as Backend(999)
BackendInvalid == 999

\* func (b Backend) String() string
String(b) ==
    CASE b = BackendTmux   -> sTmux
      [] b = BackendZellij -> sZellij
      [] b = BackendScreen -> sScreen
      [] OTHER             -> sUnknown

\* ParseBackend has one result, a Backend: there is no error result, which
\* the model records as err = FALSE on every path.
ParseBackendNoFold(s) ==
    CASE s = sTmux   -> [backend |-> BackendTmux,   err |-> FALSE]
      [] s = sZellij -> [backend |-> BackendZellij, err |-> FALSE]
      [] s = sScreen -> [backend |-> BackendScreen, err |-> FALSE]
      [] OTHER       -> [backend |-> BackendTmux,   err |-> FALSE]

ParseBackend(s) ==
    LET l == ToLower(s) IN
    CASE l = sTmux   -> [backend |-> BackendTmux,   err |-> FALSE]
      [] l = sZellij -> [backend |-> BackendZellij, err |-> FALSE]
      [] l = sScreen -> [backend |-> BackendScreen, err |-> FALSE]
      [] OTHER       -> [backend |-> BackendTmux,   err |-> FALSE]

-----------------------------------------------------------------------------
(* Config *)

\* a nil *Config
NilConfig == [nil |-> TRUE]

MkConfig(d, order) == [nil |-> FALSE, DefaultBackend |-> d, BackendOrder |-> order]

NewDefaultConfigNoScreen ==
    MkConfig(BackendTmux, <<BackendTmux, BackendZellij>>)

NewDefaultConfig ==
    MkConfig(BackendTmux, <<BackendTmux, BackendZellij, BackendScreen>>)

-----------------------------------------------------------------------------
(* Text helpers of the config file reader and writer *)

\* unicode.IsSpace, for the characters the model writes into files
IsSpace(c) == c \in {" ", "\t", "\r", "\n"}

RECURSIVE TrimLeft(_)
TrimLeft(s) ==
    IF s # <<>> /\ IsSpace(Head(s)) THEN TrimLeft(Tail(s)) ELSE s

RECURSIVE TrimRight(_)
TrimRight(s) ==
    IF s # <<>> /\ IsSpace(s[Len(s)]) THEN TrimRight(SubSeq(s, 1, Len(s) - 1)) ELSE s

\* strings.TrimSpace
TrimSpace(s) == TrimRight(TrimLeft(s))

\* strings.HasPrefix
HasPrefix(s, p) == Len(s) >= Len(p) /\ SubSeq(s, 1, Len(p)) = p

\* index of the first occurrence of character c in s, 0 when there is none
IndexOf(s, c) ==
    IF \E i \in 1..Len(s) : s[i] = c
    THEN CHOOSE i \in 1..Len(s) : s[i] = c /\ \A j \in 1..(i - 1) : s[j] # c
    ELSE 0

\* strings.Split(s, "\n")
RECURSIVE SplitLines(_)
SplitLines(s) ==
    LET i == IndexOf(s, "\n") IN
    IF i = 0 THEN <<s>>
    ELSE <<SubSeq(s, 1, i - 1)>> \o SplitLines(SubSeq(s, i + 1, Len(s)))

-----------------------------------------------------------------------------
(* The config file locations *)

\* configPaths of getConfigFilePath, in order:
\*   1 = ~/.txm/config, 2 = ~/.txm/config.txt, 3 = ~/.txmrc
ConfigPaths == <<1, 2, 3>>

\* the file SaveConfig writes: ~/.txm/config
SavePath == 1

NoFile == [exists |-> FALSE, readable |-> FALSE, data |-> <<>>]

File(data) == [exists |-> TRUE, readable |-> TRUE, data |-> data]

\* a file os.Stat finds and os.ReadFile cannot read (for example mode 0200)
Unreadable(data) == [exists |-> TRUE, readable |-> FALSE, data |-> data]

\* getConfigFilePath: the first location os.Stat finds; 0 stands for ""
RECURSIVE FirstExisting(_, _)
FirstExisting(fs, i) ==
    IF i > Len(ConfigPaths) THEN 0
    ELSE IF fs[ConfigPaths[i]].exists THEN ConfigPaths[i]
    ELSE FirstExisting(fs, i + 1)

getConfigFilePath(home, fs) ==
    IF ~home THEN 0 ELSE FirstExisting(fs, 1)

\* one line of loadConfigFile's loop, applied to the config so far
ApplyLine(config, rawLine) ==
    LET line == TrimSpace(rawLine)
        eq   == IndexOf(line, "=")
    IN  IF line = <<>> \/ HasPrefix(line, <<"#">>) THEN config
        ELSE IF eq = 0 THEN config
        ELSE LET key   == TrimSpace(SubSeq(line, 1, eq - 1))
                 value == TrimSpace(SubSeq(line, eq + 1, Len(line)))
             IN  IF ToLower(key) \in {sDefaultBackend, sBackend}
                 THEN [config EXCEPT !.DefaultBackend = ParseBackend(value).backend]
                 ELSE config

RECURSIVE ApplyLines(_, _)
ApplyLines(config, lines) ==
    IF lines = <<>> THEN config
    ELSE ApplyLines(ApplyLine(config, Head(lines)), Tail(lines))

\* loadConfigFile: err is the os.ReadFile error (never "does not exist" here,
\* since the path was found by os.Stat)
loadConfigFile(config, file) ==
    IF ~file.readable THEN [config |-> config, err |-> TRUE]
    ELSE [config |-> ApplyLines(config, SplitLines(file.data)), err |-> FALSE]

\* the environment step of LoadConfig
ApplyEnvIgnored(config, env) == config

ApplyEnv(config, env) ==
    IF env # <<>>
    THEN [config EXCEPT !.DefaultBackend = ParseBackend(env).backend]
    ELSE config

\* LoadConfig() (*Config, error)
LoadConfig(home, fs, env) ==
    LET path   == getConfigFilePath(home, fs)
        loaded == IF path = 0
                  THEN [config |-> NewDefaultConfig, err |-> FALSE]
                  ELSE loadConfigFile(NewDefaultConfig, fs[path])
    IN  IF loaded.err
        THEN [config |-> NilConfig, err |-> TRUE]
        ELSE [config |-> ApplyEnv(loaded.config, env), err |-> FALSE]

sHeader1 == <<"#"," ","t","x","m"," ","c","o","n","f","i","g","u","r","a","t","i","o","n"," ","f","i","l","e","\n">>

sHeader2 == <<"#"," ","S","e","t"," ","t","h","e"," ","d","e","f","a","u","l","t"," ","b","a","c","k","e","n","d"," ","(","t","m","u","x",","," ","z","e","l","l","i","j",","," ","s","c","r","e","e","n",")","\n">>

\* the text SaveConfig writes
SaveContentKeyless(config) ==
    sHeader1 \o sHeader2 \o String(config.DefaultBackend) \o <<"\n">>

SaveContent(config) ==
    sHeader1 \o sHeader2 \o sDefaultBackend \o <<"=">>
        \o String(config.DefaultBackend) \o <<"\n">>

\* os.WriteFile on ~/.txm/config: an existing file keeps its permissions
WrittenFile(old, data) ==
    IF old.exists THEN [old EXCEPT !.data = data] ELSE File(data)

-----------------------------------------------------------------------------
(* Availability prober and backend selector *)

\* checkTmuxAvailable: exec.LookPath("tmux"), else os.Stat of commonTmuxPaths
checkTmuxAvailable(path, common) ==
    BackendTmux \in path \/ BackendTmux \in common

\* checkZellijAvailable: exec.LookPath("zellij"), else os.Stat of commonZellijPaths
checkZellijAvailable(path, common) ==
    BackendZellij \in path \/ BackendZellij \in common

\* the zero value of SessionManager
ZeroSM ==
    [tmuxAvailable |-> FALSE, zellijAvailable |-> FALSE, verbose |-> FALSE,
     config |-> NilConfig, currentBackend |-> BackendTmux]

\* isBackendAvailable: tmux and zellij from the fields probed at construction,
\* screen by a PATH lookup at the time of the call
isBackendAvailable(s, path, backend) ==
    CASE backend = BackendTmux   -> s.tmuxAvailable
      [] backend = BackendZellij -> s.zellijAvailable
      [] backend = BackendScreen -> BackendScreen \in path
      [] OTHER                   -> FALSE

\* the loop of selectBestBackend over config.BackendOrder, from index i on
RECURSIVE ScanOrderBackwards(_, _, _, _)
ScanOrderBackwards(s, path, order, i) ==
    IF i > Len(order) THEN BackendTmux
    ELSE IF isBackendAvailable(s, path, order[Len(order) + 1 - i])
         THEN order[Len(order) + 1 - i]
         ELSE ScanOrderBackwards(s, path, order, i + 1)

\* a loop that returns the first entry of the list without probing it
ScanOrderUnprobed(s, path, order, i) ==
    IF i > Len(order) THEN BackendTmux ELSE order[i]

RECURSIVE ScanOrder(_, _, _, _)
ScanOrder(s, path, order, i) ==
    IF i > Len(order) THEN BackendTmux
    ELSE IF isBackendAvailable(s, path, order[i]) THEN order[i]
    ELSE ScanOrder(s, path, order, i + 1)

\* selectBestBackend, for a SessionManager whose config is not nil
selectByOrderOnly(s, path) ==
    ScanOrder(s, path, s.config.BackendOrder, 1)

selectBestBackend(s, path) ==
    IF isBackendAvailable(s, path, s.config.DefaultBackend)
    THEN s.config.DefaultBackend
    ELSE ScanOrder(s, path, s.config.BackendOrder, 1)

-----------------------------------------------------------------------------
(* Values the specifications leave untouched *)

HostNone ==
    /\ hostPath = {}
    /\ hostCommon = {}
    /\ homeOK = TRUE
    /\ envBackend = <<>>
    /\ files = [p \in 1..3 |-> NoFile]

ProcNone ==
    /\ args = <<>>
    /\ verbose = FALSE
    /\ out = <<>>
    /\ exitCode = -1
    /\ spawned = <<>>
    /\ lastSet = <<>>

FnNone ==
    /\ fnIn = <<>>
    /\ fnOut = <<>>

-----------------------------------------------------------------------------
(* SpecSelect: selectBestBackend on a SessionManager built as the tests     *)
(* build it, from a literal config and literal availability fields          *)

BackendValues == Backends \cup {BackendInvalid}

SeqsUpTo(S, n) == UNION {[1..k -> S] : k \in 0..n}

SelectInit ==
    /\ hostPath \in {{}, {BackendScreen}}
    /\ hostCommon = {}
    /\ homeOK = TRUE
    /\ envBackend = <<>>
    /\ files = [p \in 1..3 |-> NoFile]
    /\ ProcNone
    /\ FnNone
    /\ pc = "ready"
    /\ sm \in {[tmuxAvailable |-> ta, zellijAvailable |-> za, verbose |-> FALSE,
                config |-> MkConfig(d, order), currentBackend |-> BackendTmux] :
                    ta \in BOOLEAN, za \in BOOLEAN, d \in BackendValues,
                    order \in SeqsUpTo(BackendValues, MaxOrderLen)}

\* backend := sm.selectBestBackend()
SelectStep ==
    /\ pc = "ready"
    /\ sm' = [sm EXCEPT !.currentBackend = selectBestBackend(sm, hostPath)]
    /\ pc' = "selected"
    /\ UNCHANGED <<hostVars, args, verbose, out, exitCode, spawned, fnIn, fnOut, lastSet>>

SelectNext == SelectStep

SpecSelect == SelectInit /\ [][SelectNext]_vars

\* availability as the selector's caller gave it
Avail(b) ==
    \/ b = BackendTmux /\ sm.tmuxAvailable
    \/ b = BackendZellij /\ sm.zellijAvailable
    \/ b = BackendScreen /\ BackendScreen \in hostPath

\* C1: whenever the configured default backend is available, the selector
\* returns exactly that backend, whatever the fallback order is.
C1_DefaultAvailableWins ==
    (pc = "selected" /\ Avail(sm.config.DefaultBackend))
        => sm.currentBackend = sm.config.DefaultBackend

\* C1 witness: the default is available and the fallback order starts with
\* another available backend, so the order alone would have chosen differently.
C1_Witness ==
    /\ pc = "selected"
    /\ Avail(sm.config.DefaultBackend)
    /\ Len(sm.config.BackendOrder) >= 1
    /\ sm.config.BackendOrder[1] # sm.config.DefaultBackend
    /\ Avail(sm.config.BackendOrder[1])

-----------------------------------------------------------------------------
(* SpecParse: ParseBackend and Backend.String on bounded inputs *)

\* longest string drawn from JunkChars as a name that is no backend name
MaxJunkLen == 2

JunkChars == {"t", "T", "x", " "}

\* every upper/lower-casing of s
CaseVariants(s) ==
    {[i \in 1..Len(s) |-> IF i \in U THEN ToUpperChar(s[i]) ELSE s[i]] :
        U \in SUBSET (1..Len(s))}

BackendNames == UNION {CaseVariants(String(b)) : b \in Backends}

NearMisses ==
    {<<"i","n","v","a","l","i","d">>, <<"t","m","u">>, sTmux \o <<"x">>,
     <<" ">> \o sTmux, sScreen \o <<"\n">>, sZellij \o <<" ">>, sUnknown}

ParseInputs ==
    BackendNames \cup NearMisses \cup SeqsUpTo(JunkChars, MaxJunkLen)

ParseInit ==
    /\ HostNone
    /\ ProcNone
    /\ sm = ZeroSM
    /\ pc = "ready"
    /\ fnIn \in ParseInputs
    /\ fnOut = <<>>

\* backend, err := ParseBackend(input); name := backend.String()
ParseStep ==
    /\ pc = "ready"
    /\ fnOut' = [parsed |-> ParseBackend(fnIn),
                 name   |-> String(ParseBackend(fnIn).backend)]
    /\ pc' = "parsed"
    /\ UNCHANGED <<hostVars, args, verbose, sm, out, exitCode, spawned, fnIn, lastSet>>

ParseNext == ParseStep

SpecParse == ParseInit /\ [][ParseNext]_vars

\* C7: ParseBackend accepts exactly the three names, in any letter case, and
\* returns an error for every other string, the empty string included.
C7_ParseAcceptsExactlyNames ==
    pc = "parsed" =>
        /\ \A b \in Backends :
              fnIn \in CaseVariants(String(b)) =>
                  (~fnOut.parsed.err /\ fnOut.parsed.backend = b)
        /\ fnIn \notin BackendNames => fnOut.parsed.err

\* C8: for each backend b, parsing any letter-casing of String(b) and
\* formatting the result gives String(b) again.
C8_NameRoundTrip ==
    pc = "parsed" =>
        \A b \in Backends :
            fnIn \in CaseVariants(String(b)) => fnOut.name = String(b)

\* C8 witness: a mixed-case spelling of a name other than tmux was parsed.
C8_Witness ==
    /\ pc = "parsed"
    /\ fnIn \in CaseVariants(sZellij) \cup CaseVariants(sScreen)
    /\ fnIn # ToLower(fnIn)
    /\ fnIn # ToUpper(fnIn)
    /\ fnOut.name = ToLower(fnIn)

-----------------------------------------------------------------------------
(* SpecLoad: LoadConfig and NewDefaultConfig on bounded hosts *)

sBogus == <<"b","o","g","u","s">>
sColor == <<"c","o","l","o","r">>

Line(key, value) == key \o <<"=">> \o value \o <<"\n">>

\* contents of ~/.txm/config the model starts from
FileContents ==
    {SaveContent(MkConfig(b, <<>>)) : b \in Backends} \cup
    { <<>>,
      sBackend \o <<" ", "=", " ">> \o <<"S","c","r","e","e","n">> \o <<"\n">>,
      Line(sDefaultBackend, sBogus),
      <<"#">> \o Line(sBackend, sScreen) \o Line(ToUpper(sBackend), sZellij)
          \o Line(sColor, sScreen),
      Line(sDefaultBackend, sZellij) \o Line(sBackend, sBogus),
      sZellij \o <<"\n">> }

\* states of the three config locations the model starts from
FileStates ==
    {<<f1, f2, f3>> :
        f1 \in {NoFile, Unreadable(<<>>)} \cup {File(c) : c \in FileContents},
        f2 \in {NoFile, File(Line(sBackend, sScreen))},
        f3 \in {NoFile, File(Line(sDefaultBackend, sZellij))}}

\* values of TXM_DEFAULT_BACKEND the model starts from
EnvValues ==
    {<<>>, sTmux, sZellij, sScreen, ToUpper(sScreen),
     <<"Z">> \o Tail(sZellij), sBogus, <<"t","m","u">>}

LoadInit ==
    /\ hostPath = {}
    /\ hostCommon = {}
    /\ homeOK \in BOOLEAN
    /\ envBackend \in EnvValues
    /\ files \in FileStates
    /\ ProcNone
    /\ sm = ZeroSM
    /\ pc = "ready"
    /\ FnNone

\* config, err := LoadConfig()
LoadStep ==
    /\ pc = "ready"
    /\ fnOut' = LoadConfig(homeOK, files, envBackend)
    /\ pc' = "loaded"
    /\ UNCHANGED <<hostVars, args, verbose, sm, out, exitCode, spawned, fnIn, lastSet>>

\* config := NewDefaultConfig()
DefaultStep ==
    /\ pc = "ready"
    /\ fnOut' = [config |-> NewDefaultConfig, err |-> FALSE]
    /\ pc' = "default"
    /\ UNCHANGED <<hostVars, args, verbose, sm, out, exitCode, spawned, fnIn, lastSet>>

LoadNext == LoadStep \/ DefaultStep

SpecLoad == LoadInit /\ [][LoadNext]_vars

\* no config location holds a file that cannot be read
FilesReadable == \A p \in 1..3 : files[p].exists => files[p].readable

NoConfigFile == \A p \in 1..3 : ~files[p].exists

\* C4: with TXM_DEFAULT_BACKEND set to tmux, zellij or screen, loading yields
\* that backend as DefaultBackend whatever the config file holds (absent,
\* empty, naming another backend or naming an invalid one).
C4_EnvOverridesFile ==
    (pc = "loaded" /\ FilesReadable) =>
        \A b \in Backends :
            envBackend = String(b) =>
                (~fnOut.err /\ ~fnOut.config.nil /\ fnOut.config.DefaultBackend = b)

\* C4 witness: the variable names one backend, the file read names another,
\* and the variable's backend came out.
C4_Witness ==
    /\ pc = "loaded"
    /\ homeOK
    /\ envBackend = sScreen
    /\ files[1] = File(SaveContent(MkConfig(BackendZellij, <<>>)))
    /\ fnOut.config.DefaultBackend = BackendScreen

\* C5: a TXM_DEFAULT_BACKEND that is no backend name is ignored: loading gives
\* what it gives with the variable unset.
C5_InvalidEnvIgnored ==
    (pc = "loaded" /\ envBackend # <<>> /\ envBackend \notin BackendNames) =>
        fnOut = LoadConfig(homeOK, files, <<>>)

\* C6: with no config file and no TXM_DEFAULT_BACKEND the loaded
\* configuration, like NewDefaultConfig, has DefaultBackend tmux and the
\* fallback order tmux, screen, zellij.
C6_CompiledInDefaults ==
    (pc = "default" \/ (pc = "loaded" /\ NoConfigFile /\ envBackend = <<>>)) =>
        /\ ~fnOut.config.nil
        /\ fnOut.config.DefaultBackend = BackendTmux
        /\ fnOut.config.BackendOrder = <<BackendTmux, BackendScreen, BackendZellij>>

-----------------------------------------------------------------------------
(* The process: main, NewSessionManager and the config verbs *)

sConfig == <<"c","o","n","f","i","g">>
sSet == <<"s","e","t">>
sGet == <<"g","e","t">>
sShow == <<"s","h","o","w">>
sList == <<"l","i","s","t">>
sHelp == <<"h","e","l","p">>
sDashV == <<"-","v">>
sVerboseFlag == <<"-","-","v","e","r","b","o","s","e">>

\* the case labels of main's switch
Verbs ==
    {<<"c","r","e","a","t","e">>,
     <<"l","i","s","t">>,
     <<"a","t","t","a","c","h">>,
     <<"d","e","t","a","c","h">>,
     <<"d","e","l","e","t","e">>,
     <<"n","u","k","e">>,
     <<"n","e","w","-","w","i","n","d","o","w">>,
     <<"l","i","s","t","-","w","i","n","d","o","w","s">>,
     <<"k","i","l","l","-","w","i","n","d","o","w">>,
     <<"n","e","x","t","-","w","i","n","d","o","w">>,
     <<"p","r","e","v","-","w","i","n","d","o","w">>,
     <<"r","e","n","a","m","e","-","s","e","s","s","i","o","n">>,
     <<"r","e","n","a","m","e","-","w","i","n","d","o","w">>,
     <<"m","o","v","e","-","w","i","n","d","o","w">>,
     <<"s","w","a","p","-","w","i","n","d","o","w">>,
     <<"s","p","l","i","t","-","w","i","n","d","o","w">>,
     <<"l","i","s","t","-","p","a","n","e","s">>,
     <<"k","i","l","l","-","p","a","n","e">>,
     <<"r","e","s","i","z","e","-","p","a","n","e">>,
     <<"s","e","n","d","-","k","e","y","s">>,
     <<"v","e","r","s","i","o","n">>,
     <<"u","p","d","a","t","e">>,
     <<"u","n","i","n","s","t","a","l","l">>,
     <<"c","o","n","f","i","g">>,
     <<"h","e","l","p">>}

\* one message of the process: lvl is the log level ("ERROR", "WARNING",
\* "INFO"), "stderr" for a diagnostic, "print" for a bare fmt.Printf and
\* "help" for displayHelp; msg is the format string, val the formatted value
Log(lvl, msg, val) == [lvl |-> lvl, msg |-> msg, val |-> val]

\* getArg: args[i] is os.Args[i]; os.Args[0], the program name, is left out
getArg(a, index, defaultValue) ==
    IF index <= Len(a) THEN a[index] ELSE defaultValue

IsVerboseFlag(a) == a = sDashV \/ a = sVerboseFlag

NotVerboseFlag(a) == ~IsVerboseFlag(a)

\* strings.Join(names, ", ") of the String()s of a list of backends
RECURSIVE JoinNames(_)
JoinNames(bs) ==
    IF bs = <<>> THEN <<>>
    ELSE IF Len(bs) = 1 THEN String(bs[1])
    ELSE String(bs[1]) \o <<",", " ">> \o JoinNames(Tail(bs))

\* the backends of list bs that isBackendAvailable reports, in order
RECURSIVE AvailableOf(_, _, _)
AvailableOf(s, path, bs) ==
    IF bs = <<>> THEN <<>>
    ELSE (IF isBackendAvailable(s, path, Head(bs)) THEN <<Head(bs)>> ELSE <<>>)
             \o AvailableOf(s, path, Tail(bs))

AllBackends == <<BackendTmux, BackendZellij, BackendScreen>>

\* NewSessionManager(verbose): panic is the nil dereference of sm.config in
\* selectBestBackend, reached when LoadConfig failed and verbose is off
NewSessionManager(v, home, fs, env, path, common) ==
    LET loaded == LoadConfig(home, fs, env)
        warned == loaded.err /\ v
        config == IF warned THEN NewDefaultConfig ELSE loaded.config
        warn   == IF warned
                  THEN <<Log("stderr", "Warning: Failed to load config: %v", <<>>)>>
                  ELSE <<>>
        s0     == [tmuxAvailable   |-> checkTmuxAvailable(path, common),
                   zellijAvailable |-> checkZellijAvailable(path, common),
                   verbose         |-> v,
                   config          |-> config,
                   currentBackend  |-> BackendTmux]
    IN  IF config.nil
        THEN [panic |-> TRUE, sm |-> s0, out |-> warn]
        ELSE LET s1 == [s0 EXCEPT !.currentBackend = selectBestBackend(s0, path)]
             IN  [panic |-> FALSE,
                  sm    |-> s1,
                  out   |-> warn \o
                            (IF v
                             THEN <<Log("stderr", "SessionManager initialized with useColors=%v, backend=%v",
                                        String(s1.currentBackend))>>
                             ELSE <<>>)]

\* SaveConfig(config); ioOK says whether os.MkdirAll and os.WriteFile succeed
SaveConfig(config, home, fs, ioOK) ==
    IF ~home THEN [err |-> TRUE, msg |-> "failed to get home directory: %v", files |-> fs]
    ELSE IF ~ioOK THEN [err |-> TRUE, msg |-> "failed to write config file: %v", files |-> fs]
    ELSE [err |-> FALSE, msg |-> "",
          files |-> [fs EXCEPT ![SavePath] = WrittenFile(fs[SavePath], SaveContent(config))]]

\* setConfigValue(sm, key, value)
setConfigValue(s, key, value, home, fs, path, ioOK) ==
    IF ToLower(key) = sBackend
    THEN LET p == ParseBackend(value) IN
         IF p.err
         THEN [err |-> TRUE, sm |-> s, files |-> fs, parsed |-> FALSE,
               out |-> <<Log("ERROR", "invalid backend: %s", value)>>]
         ELSE IF ~isBackendAvailable(s, path, p.backend)
         THEN [err |-> TRUE, sm |-> s, files |-> fs, parsed |-> TRUE,
               out |-> <<Log("ERROR", "backend '%s' is not available on this system", value)>>]
         ELSE LET s1    == [s EXCEPT !.config.DefaultBackend = p.backend]
                  saved == SaveConfig(s1.config, home, fs, ioOK)
              IN  IF saved.err
                  THEN [err |-> TRUE, sm |-> s1, files |-> fs, parsed |-> TRUE,
                        out |-> <<Log("ERROR", "failed to save config: %v", <<>>)>>]
                  ELSE [err |-> FALSE, sm |-> s1, files |-> saved.files, parsed |-> TRUE,
                        out |-> <<Log("INFO", "Default backend set to '%s'",
                                      String(p.backend))>>]
    ELSE [err |-> TRUE, sm |-> s, files |-> fs, parsed |-> FALSE,
          out |-> <<Log("ERROR", "unknown configuration key: %s", key)>>]

\* getConfigValue(sm, key)
getConfigValue(s, key) ==
    IF ToLower(key) = sBackend
    THEN [err |-> FALSE, out |-> <<Log("print", "%s\n", String(s.config.DefaultBackend))>>]
    ELSE [err |-> TRUE, out |-> <<Log("ERROR", "unknown configuration key: %s", key)>>]

\* showCurrentConfig(sm)
showCurrentConfig(s, path) ==
    << Log("INFO", "Current Configuration:", <<>>),
       Log("print", "  Default Backend: %s\n", String(s.config.DefaultBackend)),
       Log("print", "  Current Backend: %s\n", String(s.currentBackend)),
       Log("print", "  Available Backends: %s\n", JoinNames(AvailableOf(s, path, AllBackends))) >>

-----------------------------------------------------------------------------
(* The session, window and pane handlers and the backend adapters.  Each   *)
(* takes the run so far and returns the run after it: the subprocesses it  *)
(* started, the lines it wrote and the value it returned.                  *)
(*                                                                         *)
(* A handler that goes on from the run a call returned binds that run as   *)
(* a value:                                                                *)
(*     CHOOSE x \in {(e(r)) : r \in {f(rs)}} : TRUE                        *)
(* is e(f(rs)), read "let r be f(rs) in e(r)", with f(rs) worked out once  *)
(* however often e uses r.                                                 *)

\* the session, window and pane verbs of main's switch
txmVerb ==
    [create |-> <<"c","r","e","a","t","e">>,
     list |-> <<"l","i","s","t">>,
     attach |-> <<"a","t","t","a","c","h">>,
     detach |-> <<"d","e","t","a","c","h">>,
     delete |-> <<"d","e","l","e","t","e">>,
     nuke |-> <<"n","u","k","e">>,
     newWindow |-> <<"n","e","w","-","w","i","n","d","o","w">>,
     listWindows |-> <<"l","i","s","t","-","w","i","n","d","o","w","s">>,
     killWindow |-> <<"k","i","l","l","-","w","i","n","d","o","w">>,
     nextWindow |-> <<"n","e","x","t","-","w","i","n","d","o","w">>,
     prevWindow |-> <<"p","r","e","v","-","w","i","n","d","o","w">>,
     renameSession |-> <<"r","e","n","a","m","e","-","s","e","s","s","i","o","n">>,
     renameWindow |-> <<"r","e","n","a","m","e","-","w","i","n","d","o","w">>,
     moveWindow |-> <<"m","o","v","e","-","w","i","n","d","o","w">>,
     swapWindow |-> <<"s","w","a","p","-","w","i","n","d","o","w">>,
     splitWindow |-> <<"s","p","l","i","t","-","w","i","n","d","o","w">>,
     listPanes |-> <<"l","i","s","t","-","p","a","n","e","s">>,
     killPane |-> <<"k","i","l","l","-","p","a","n","e">>,
     resizePane |-> <<"r","e","s","i","z","e","-","p","a","n","e">>,
     sendKeys |-> <<"s","e","n","d","-","k","e","y","s">>]

\* the literal arguments of the tmux commands
tmuxArg ==
    [hasSession |-> <<"h","a","s","-","s","e","s","s","i","o","n">>,
     t |-> <<"-","t">>,
     newSession |-> <<"n","e","w","-","s","e","s","s","i","o","n">>,
     d |-> <<"-","d">>,
     s |-> <<"-","s">>,
     listSessions |-> <<"l","i","s","t","-","s","e","s","s","i","o","n","s">>,
     attachSession |-> <<"a","t","t","a","c","h","-","s","e","s","s","i","o","n">>,
     detachClient |-> <<"d","e","t","a","c","h","-","c","l","i","e","n","t">>,
     killSession |-> <<"k","i","l","l","-","s","e","s","s","i","o","n">>,
     renameSession |-> <<"r","e","n","a","m","e","-","s","e","s","s","i","o","n">>,
     newWindow |-> <<"n","e","w","-","w","i","n","d","o","w">>,
     n |-> <<"-","n">>,
     listWindows |-> <<"l","i","s","t","-","w","i","n","d","o","w","s">>,
     killWindow |-> <<"k","i","l","l","-","w","i","n","d","o","w">>,
     nextWindow |-> <<"n","e","x","t","-","w","i","n","d","o","w">>,
     previousWindow |-> <<"p","r","e","v","i","o","u","s","-","w","i","n","d","o","w">>,
     renameWindow |-> <<"r","e","n","a","m","e","-","w","i","n","d","o","w">>,
     moveWindow |-> <<"m","o","v","e","-","w","i","n","d","o","w">>,
     swapWindow |-> <<"s","w","a","p","-","w","i","n","d","o","w">>,
     splitWindow |-> <<"s","p","l","i","t","-","w","i","n","d","o","w">>,
     v |-> <<"-","v">>,
     h |-> <<"-","h">>,
     listPanes |-> <<"l","i","s","t","-","p","a","n","e","s">>,
     killPane |-> <<"k","i","l","l","-","p","a","n","e">>,
     resizePane |-> <<"r","e","s","i","z","e","-","p","a","n","e">>,
     U |-> <<"-","U">>,
     D |-> <<"-","D">>,
     L |-> <<"-","L">>,
     R |-> <<"-","R">>,
     sendKeys |-> <<"s","e","n","d","-","k","e","y","s">>,
     killServer |-> <<"k","i","l","l","-","s","e","r","v","e","r">>]

\* the literal arguments of the zellij commands
zellijArg ==
    [listSessions |-> <<"l","i","s","t","-","s","e","s","s","i","o","n","s">>,
     attach |-> <<"a","t","t","a","c","h">>,
     createBackground |-> <<"-","-","c","r","e","a","t","e","-","b","a","c","k","g","r","o","u","n","d">>,
     deleteSession |-> <<"d","e","l","e","t","e","-","s","e","s","s","i","o","n">>,
     force |-> <<"-","-","f","o","r","c","e">>,
     s |-> <<"-","s">>,
     action |-> <<"a","c","t","i","o","n">>,
     newTab |-> <<"n","e","w","-","t","a","b">>,
     name |-> <<"-","-","n","a","m","e">>,
     dumpLayout |-> <<"d","u","m","p","-","l","a","y","o","u","t">>,
     closeTab |-> <<"c","l","o","s","e","-","t","a","b">>,
     goToNextTab |-> <<"g","o","-","t","o","-","n","e","x","t","-","t","a","b">>,
     goToPreviousTab |-> <<"g","o","-","t","o","-","p","r","e","v","i","o","u","s","-","t","a","b">>,
     newPane |-> <<"n","e","w","-","p","a","n","e">>,
     direction |-> <<"-","-","d","i","r","e","c","t","i","o","n">>,
     down |-> <<"d","o","w","n">>,
     right |-> <<"r","i","g","h","t">>,
     left |-> <<"l","e","f","t">>,
     up |-> <<"u","p">>,
     moveFocusOrTab |-> <<"m","o","v","e","-","f","o","c","u","s","-","o","r","-","t","a","b">>,
     focusNextPane |-> <<"f","o","c","u","s","-","n","e","x","t","-","p","a","n","e">>,
     dumpScreen |-> <<"d","u","m","p","-","s","c","r","e","e","n">>,
     devStdout |-> <<"/","d","e","v","/","s","t","d","o","u","t">>,
     closePane |-> <<"c","l","o","s","e","-","p","a","n","e">>,
     resize |-> <<"r","e","s","i","z","e">>,
     writeChars |-> <<"w","r","i","t","e","-","c","h","a","r","s">>,
     deleteAllSessions |-> <<"d","e","l","e","t","e","-","a","l","l","-","s","e","s","s","i","o","n","s">>,
     y |-> <<"-","y">>,
     f |-> <<"-","f">>]

\* the literal arguments of the screen commands
screenArg ==
    [ls |-> <<"-","l","s">>,
     dmS |-> <<"-","d","m","S">>,
     r |-> <<"-","r">>,
     d |-> <<"-","d">>,
     S |-> <<"-","S">>,
     X |-> <<"-","X">>,
     quit |-> <<"q","u","i","t">>,
     screen |-> <<"s","c","r","e","e","n">>,
     t |-> <<"-","t">>,
     windows |-> <<"w","i","n","d","o","w","s">>,
     next |-> <<"n","e","x","t">>,
     prev |-> <<"p","r","e","v">>,
     title |-> <<"t","i","t","l","e">>,
     split |-> <<"s","p","l","i","t">>,
     v |-> <<"-","v">>]

\* strings.Contains(s, p)
IsInfix(p, s) ==
    \E i \in 0..(Len(s) - Len(p)) : SubSeq(s, i + 1, i + Len(p)) = p

DigitChars == <<"0","1","2","3","4","5","6","7","8","9">>

\* strconv.Atoi: an optional sign and decimal digits; err otherwise
RECURSIVE AtoiDigits(_, _)
AtoiDigits(s, acc) ==
    IF s = <<>> THEN acc
    ELSE AtoiDigits(Tail(s), 10 * acc + ((CHOOSE i \in 1..10 : DigitChars[i] = Head(s)) - 1))

Atoi(s) ==
    LET body == IF s # <<>> /\ Head(s) \in {"+", "-"} THEN Tail(s) ELSE s
    IN  IF body = <<>> \/ \E i \in 1..Len(body) : \A k \in 1..10 : DigitChars[k] # body[i]
        THEN [err |-> TRUE, n |-> 0]
        ELSE [err |-> FALSE,
              n   |-> IF Head(s) = "-" THEN 0 - AtoiDigits(body, 0) ELSE AtoiDigits(body, 0)]

\* fmt.Sprintf("%d", n)
RECURSIVE Itoa(_)
Itoa(n) ==
    IF n < 0 THEN <<"-">> \o Itoa(0 - n)
    ELSE IF n < 10 THEN <<DigitChars[n + 1]>>
    ELSE Itoa(n \div 10) \o <<DigitChars[(n % 10) + 1]>>

\* the binary a command name resolves to
BinBackend(bin) ==
    CASE bin = "tmux"   -> BackendTmux
      [] bin = "zellij" -> BackendZellij
      [] bin = "screen" -> BackendScreen

\* the character 0x1b that starts an ANSI escape sequence, written ^ (no
\* other string of the model holds it)
ESC == "^"

\* the first of strings.Fields(s); <<>> when s holds no field
FirstField(s) ==
    LET t == TrimLeft(s)
    IN  IF \E i \in 1..Len(t) : IsSpace(t[i])
        THEN SubSeq(t, 1, (CHOOSE i \in 1..Len(t) :
                              IsSpace(t[i]) /\ \A j \in 1..(i - 1) : ~IsSpace(t[j])) - 1)
        ELSE t

\* [0-9;] and [a-zA-Z] of the regular expression below
IsParameter(c) == c = ";" \/ \E k \in 1..10 : DigitChars[k] = c

IsLetter(c) == \E k \in 1..26 : UpperChars[k] = c \/ LowerChars[k] = c

\* regexp `\x1b\[[0-9;]*[a-zA-Z]` matched at the head of s: the length of
\* the match, 0 when there is none
EscapeLen(s) ==
    IF Len(s) < 3 \/ s[1] # ESC \/ s[2] # "[" THEN 0
    ELSE LET ends == {j \in 3..Len(s) : /\ IsLetter(s[j])
                                        /\ \A i \in 3..(j - 1) : IsParameter(s[i])}
         IN  IF ends = {} THEN 0 ELSE CHOOSE j \in ends : TRUE

\* the line as printed, colour codes kept
StripANSIKept(s) == s

\* re.ReplaceAllString(line, "") with that regexp
RECURSIVE StripANSI(_)
StripANSI(s) ==
    IF s = <<>> THEN <<>>
    ELSE IF EscapeLen(s) > 0 THEN StripANSI(SubSeq(s, EscapeLen(s) + 1, Len(s)))
    ELSE <<Head(s)>> \o StripANSI(Tail(s))

\* a line of `zellij list-sessions`: the name in colour, then the age note
ZellijLine(session) ==
    <<ESC, "[", "3", "2", ";", "1", "m">> \o session.name \o <<ESC, "[", "m">>
        \o <<" ", "[", "1", "h", " ", "a", "g", "o", "]">>

\* what `zellij list-sessions` prints: one line per session
RECURSIVE ZellijListing(_)
ZellijListing(sessions) ==
    IF sessions = <<>> THEN <<>>
    ELSE ZellijLine(Head(sessions)) \o <<"\n">> \o ZellijListing(Tail(sessions))

\* the first field of a line of `screen -ls`: pid.name
ScreenID(session) == session.pid \o <<".">> \o session.name

\* the status markers of `screen -ls`
sAttached == <<"(", "A", "t", "t", "a", "c", "h", "e", "d", ")">>
sDetached == <<"(", "D", "e", "t", "a", "c", "h", "e", "d", ")">>

RECURSIVE ScreenLines(_)
ScreenLines(sessions) ==
    IF sessions = <<>> THEN <<>>
    ELSE <<"\t">> \o ScreenID(Head(sessions))
             \o <<"\t">> \o sDetached \o <<"\n">>
             \o ScreenLines(Tail(sessions))

\* what `screen -ls` prints: a heading, one line per session, a closing line
ScreenListing(sessions) ==
    IF sessions = <<>>
    THEN <<"N", "o", " ", "S", "o", "c", "k", "e", "t", "s", " ", "f", "o", "u", "n", "d", ".", "\n">>
    ELSE <<"T", "h", "e", "r", "e", " ", "a", "r", "e", " ", "s", "c", "r", "e", "e", "n", "s",
           " ", "o", "n", ":", "\n">>
             \o ScreenLines(sessions)
             \o <<"S", "o", "c", "k", "e", "t", "s", " ", "i", "n", " ", "/", "r", "u", "n", ".", "\n">>

\* the session part of a tmux target session:window.pane
SessionOf(target) ==
    IF IndexOf(target, ":") = 0 THEN target ELSE SubSeq(target, 1, IndexOf(target, ":") - 1)

\* the sessions a command addresses by name or identifier
Addressed(bin, argv) ==
    CASE bin = "tmux" ->
            IF argv[1] = tmuxArg.newSession THEN {}
            ELSE {SessionOf(argv[i + 1]) :
                     i \in {k \in 1..(Len(argv) - 1) : argv[k] \in {tmuxArg.t, tmuxArg.s}}}
      [] bin = "zellij" ->
            IF argv[1] = zellijArg.s THEN {argv[2]}
            ELSE IF argv[1] = zellijArg.attach /\ argv[2] # zellijArg.createBackground
            THEN {argv[2]}
            ELSE IF argv[1] = zellijArg.deleteSession THEN {argv[Len(argv)]}
            ELSE {}
      [] bin = "screen" ->
            {argv[i + 1] :
                i \in {k \in 1..(Len(argv) - 1) : argv[k] \in {screenArg.S, screenArg.r}}}

\* the multiplexer holds a session the identifier stands for: its name and,
\* for screen, also pid.name and pid
Holds(sessions, bin, id) ==
    \E i \in 1..Len(sessions) :
        \/ sessions[i].name = id
        \/ bin = "screen" /\ id \in {ScreenID(sessions[i]), sessions[i].pid}

\* the multiplexer carries the command out: every session it addresses is
\* there, and tmux creates no second session of a name
Accepts(sessions, bin, argv) ==
    /\ \A id \in Addressed(bin, argv) : Holds(sessions, bin, id)
    /\ ~(/\ bin = "tmux"
         /\ argv[1] = tmuxArg.newSession
         /\ Holds(sessions, bin, argv[Len(argv)]))

\* the process id of the next session: the least one not in use
FreshPid(sessions) ==
    Itoa(CHOOSE n \in 1..9 :
            /\ \A i \in 1..Len(sessions) : sessions[i].pid # Itoa(n)
            /\ \A m \in 1..(n - 1) : \E i \in 1..Len(sessions) : sessions[i].pid = Itoa(m))

\* the sessions without those the identifier stands for
RECURSIVE Without(_, _, _)
Without(sessions, bin, id) ==
    IF sessions = <<>> THEN <<>>
    ELSE IF Holds(<<Head(sessions)>>, bin, id) THEN Without(Tail(sessions), bin, id)
    ELSE <<Head(sessions)>> \o Without(Tail(sessions), bin, id)

\* the sessions the multiplexer holds after it carried the command out
Effect(sessions, bin, argv) ==
    CASE bin = "tmux" /\ argv[1] = tmuxArg.newSession ->
            Append(sessions, [pid |-> FreshPid(sessions), name |-> argv[Len(argv)]])
      [] bin = "tmux" /\ argv[1] = tmuxArg.killSession ->
            Without(sessions, bin, argv[Len(argv)])
      [] bin = "tmux" /\ argv[1] = tmuxArg.killServer -> <<>>
      [] bin = "tmux" /\ argv[1] = tmuxArg.renameSession ->
            [i \in 1..Len(sessions) |->
                IF sessions[i].name = argv[3]
                THEN [sessions[i] EXCEPT !.name = argv[4]] ELSE sessions[i]]
      [] bin = "zellij" /\ argv[1] = zellijArg.attach /\ argv[2] = zellijArg.createBackground ->
            Append(sessions, [pid |-> FreshPid(sessions), name |-> argv[Len(argv)]])
      [] bin = "zellij" /\ argv[1] = zellijArg.deleteSession ->
            Without(sessions, bin, argv[Len(argv)])
      [] bin = "zellij" /\ argv[1] = zellijArg.deleteAllSessions -> <<>>
      [] bin = "screen" /\ argv[1] = screenArg.dmS ->
            Append(sessions, [pid |-> FreshPid(sessions), name |-> argv[Len(argv)]])
      [] bin = "screen" /\ argv[Len(argv)] = screenArg.quit ->
            Without(sessions, bin, argv[3])
      [] OTHER -> sessions

\* the commands that list the sessions, and what they print
IsListing(bin, argv) ==
    \/ bin = "zellij" /\ argv = <<zellijArg.listSessions>>
    \/ bin = "screen" /\ argv = <<screenArg.ls>>

Listed(sessions, bin, argv) ==
    IF bin = "zellij" THEN ZellijListing(sessions) ELSE ScreenListing(sessions)

\* no other process touches the sessions during the run
NoActor == [at |-> 0, del |-> FALSE, name |-> <<>>]

\* one handler's run: the subprocesses it started so far (cmds), the numbers
\* of the calls the environment makes fail (fails), the sessions the
\* multiplexer holds, the text the last listing command printed (output),
\* the lines written, and the value the last function returned: err for an
\* error result, res for a boolean result; n is the killCount of the
\* handlers that count.  actor is the other process of the host: before
\* call number actor.at it deletes (del) or creates the session actor.name
NewRun(fails, sessions) ==
    [cmds |-> <<>>, fails |-> fails, sessions |-> sessions, output |-> <<>>,
     out |-> <<>>, err |-> FALSE, res |-> FALSE, n |-> 0, actor |-> NoActor]

\* the sessions when the next call starts
Interfered(rs) ==
    IF rs.actor.at # Len(rs.cmds) + 1 THEN rs.sessions
    ELSE IF rs.actor.del THEN Without(rs.sessions, "", rs.actor.name)
    ELSE IF Holds(rs.sessions, "", rs.actor.name) THEN rs.sessions
    ELSE Append(rs.sessions, [pid |-> FreshPid(rs.sessions), name |-> rs.actor.name])

\* the run after the subprocess bin argv that found the sessions as they
\* are in `sessions` and returned ok
Started(rs, sessions, bin, argv, ok) ==
    [rs EXCEPT !.cmds = Append(@, [bin |-> bin, cmd |-> argv, ok |-> ok]),
               !.sessions = IF ok THEN Effect(sessions, bin, argv) ELSE sessions,
               !.output = IF ok /\ IsListing(bin, argv) THEN Listed(sessions, bin, argv) ELSE @,
               !.err = ~ok,
               !.res = ok]

\* exec.Command(bin, argv...) followed by Run() or Output(): the call fails
\* when the binary is not found through PATH, when the multiplexer refuses
\* the command or when the environment makes it fail.  (The run so far and
\* the sessions are bound as values, v and s, so that they are worked out
\* once.)
Exec(rs, bin, argv) ==
    CHOOSE r \in {Started(v[1], v[2], bin, argv,
                          /\ BinBackend(bin) \in hostPath
                          /\ Accepts(v[2], bin, argv)
                          /\ (Len(v[1].cmds) + 1) \notin v[1].fails) :
                     v \in {<<x, Interfered(x)>> : x \in {rs}}} : TRUE

\* runZellijCommandWithSession(session, args...)
runZellijCommandWithSession(rs, session, argv) ==
    Exec(rs, "zellij", <<zellijArg.s, session>> \o argv)

\* return fmt.Errorf(...) and return nil
Fail(rs) == [rs EXCEPT !.err = TRUE, !.res = FALSE]

Succeed(rs) == [rs EXCEPT !.err = FALSE]

\* sm.logInfo, sm.logWarning and sm.logError inside a handler
logLine(rs, lvl, msg, val) == [rs EXCEPT !.out = Append(@, Log(lvl, msg, val))]

\* `if err != nil { logError(...); return }; logInfo(...)`: okMsg is "" when
\* the handler says nothing on success
Report(rs, errMsg, okMsg, val) ==
    IF rs.err THEN logLine(rs, "ERROR", errMsg, val)
    ELSE IF okMsg = "" THEN rs
    ELSE logLine(rs, "INFO", okMsg, val)

\* tmuxSessionExists: `tmux has-session -t name` exits zero
tmuxSessionExists(rs, name) ==
    Exec(rs, "tmux", <<tmuxArg.hasSession, tmuxArg.t, name>>)

\* zellijSessionExists: the output of `zellij list-sessions` contains name
zellijSessionExists(rs, name) ==
    CHOOSE x \in {[r EXCEPT !.res = ~r.err /\ IsInfix(name, r.output)] :
                     r \in {Exec(rs, "zellij", <<zellijArg.listSessions>>)}} : TRUE

\* screenSessionExists: a line of `screen -ls` with a status marker
\* contains "." + name
screenSessionExists(rs, name) ==
    CHOOSE x \in {[r EXCEPT !.res = /\ ~r.err
                                   /\ \E line \in {SplitLines(r.output)[i] : i \in 1..Len(SplitLines(r.output))} :
                                         /\ IsInfix(<<".">> \o name, line)
                                         /\ (IsInfix(sAttached, line) \/ IsInfix(sDetached, line))] :
                     r \in {Exec(rs, "screen", <<screenArg.ls>>)}} : TRUE

\* sessionExists that asks nobody and answers yes
sessionExistsAssumed(rs, b, name) == [rs EXCEPT !.res = TRUE]

\* sm.sessionExists(name)
sessionExists(rs, b, name) ==
    CASE b = BackendTmux   -> tmuxSessionExists(rs, name)
      [] b = BackendZellij -> zellijSessionExists(rs, name)
      [] b = BackendScreen -> screenSessionExists(rs, name)
      [] OTHER             -> Fail(rs)

\* the sets of subprocess calls the environment can make fail
FailSets == {f \in SUBSET (1..MaxCalls) : Cardinality(f) <= MaxFailures}

\* fmt.Sprintf("%s:%s", session, window)
WindowTarget(session, window) == session \o <<":">> \o window

\* fmt.Sprintf("%s:%s.%s", session, window, pane)
PaneTarget(session, window, pane) == session \o <<":">> \o window \o <<".">> \o pane

\* zellijCreateSession without the query after the create command
zellijCreateSessionUnverified(rs, name) ==
    CHOOSE x46 \in {(IF r1.res THEN Fail(r1)
        ELSE CHOOSE x45 \in {(IF r2.err THEN Fail(r2) ELSE Succeed(r2))
                 : r2 \in {Exec(r1, "zellij",
                            <<zellijArg.attach, zellijArg.createBackground, name>>)}} : TRUE)
        : r1 \in {zellijSessionExists(rs, name)}} : TRUE

\* zellijCreateSession: refuse an existing name, create in the background,
\* then verify that the session is listed
zellijCreateSession(rs, name) ==
    CHOOSE x44 \in {(IF r1.res THEN Fail(r1)
        ELSE CHOOSE x43 \in {(IF r2.err THEN Fail(r2)
                 ELSE CHOOSE x42 \in {(IF r3.res THEN Succeed(r3) ELSE Fail(r3))
                          : r3 \in {zellijSessionExists(r2, name)}} : TRUE)
                 : r2 \in {Exec(r1, "zellij",
                            <<zellijArg.attach, zellijArg.createBackground, name>>)}} : TRUE)
        : r1 \in {zellijSessionExists(rs, name)}} : TRUE

\* sm.createSession(name)
createSession(rs, b, name) ==
    CASE b = BackendTmux ->
            Report(Exec(rs, "tmux", <<tmuxArg.newSession, tmuxArg.d, tmuxArg.s, name>>),
                   "Failed to create tmux session '%s'", "Session '%s' created with tmux", name)
      [] b = BackendZellij ->
            Report(zellijCreateSession(rs, name),
                   "Failed to create zellij session '%s'", "Session '%s' created with zellij", name)
      [] b = BackendScreen ->
            Report(Exec(rs, "screen", <<screenArg.dmS, name>>),
                   "Failed to create screen session '%s'", "Session '%s' created with screen", name)
      [] OTHER -> logLine(rs, "ERROR", "No available backend to create session", <<>>)

\* sm.listSessions(): a failed listing is a warning
listSessions(rs, b) ==
    CHOOSE x41 \in {(IF ~r.err THEN r
        ELSE CASE b = BackendTmux   -> logLine(r, "WARNING", "No tmux sessions found", <<>>)
               [] b = BackendZellij -> logLine(r, "WARNING", "No zellij sessions found", <<>>)
               [] b = BackendScreen -> logLine(r, "WARNING", "No screen sessions found", <<>>)
               [] OTHER -> logLine(r, "ERROR", "No available backend to list sessions", <<>>))
        : r \in {CASE b = BackendTmux   -> Exec(rs, "tmux", <<tmuxArg.listSessions>>)
               [] b = BackendZellij -> Exec(rs, "zellij", <<zellijArg.listSessions>>)
               [] b = BackendScreen -> Exec(rs, "screen", <<screenArg.ls>>)
               [] OTHER             -> Fail(rs)}} : TRUE

\* zellijNewWindow, zellijKillWindow, zellijNextWindow, zellijPreviousWindow:
\* the session must be listed, then one `zellij -s session action ...`
zellijInSession(rs, session, argv) ==
    CHOOSE x40 \in {(IF ~r1.res THEN Fail(r1)
        ELSE runZellijCommandWithSession(r1, session, <<zellijArg.action>> \o argv))
        : r1 \in {zellijSessionExists(rs, session)}} : TRUE

\* sm.newWindow(session, name)
newWindow(rs, b, session, name) ==
    CASE b = BackendTmux ->
            Report(Exec(rs, "tmux", <<tmuxArg.newWindow, tmuxArg.t, session, tmuxArg.n, name>>),
                   "Failed to create window '%s' in tmux session '%s'",
                   "Window '%s' created in tmux session '%s'", name)
      [] b = BackendZellij ->
            Report(zellijInSession(rs, session,
                                   IF name # <<>> THEN <<zellijArg.newTab, zellijArg.name, name>>
                                   ELSE <<zellijArg.newTab>>),
                   "Failed to create tab '%s' in zellij session '%s'",
                   "Tab '%s' created in zellij session '%s'", name)
      [] b = BackendScreen ->
            CHOOSE x39 \in {(IF r1.err
                THEN logLine(r1, "ERROR", "Failed to create window in screen session '%s'", session)
                ELSE CHOOSE x38 \in {(IF r2.err
                         THEN logLine(r2, "WARNING",
                                      "Created window but failed to rename it in screen session '%s'", session)
                         ELSE logLine(r2, "INFO", "Window '%s' created in screen session '%s'", name))
                         : r2 \in {Exec(r1, "screen", <<screenArg.S, session, screenArg.X,
                                                    screenArg.title, name>>)}} : TRUE)
                : r1 \in {Exec(rs, "screen", <<screenArg.S, session, screenArg.X, screenArg.screen,
                                           screenArg.t, name>>)}} : TRUE
      [] OTHER -> logLine(rs, "ERROR", "No available backend to create window", <<>>)

\* zellijListWindows: dump-layout, and the session list when that fails
zellijListWindows(rs, session) ==
    CHOOSE x37 \in {(IF ~r1.res THEN Fail(r1)
        ELSE CHOOSE x36 \in {(IF ~r2.err THEN r2
                 ELSE CHOOSE x35 \in {(IF r3.err THEN Fail(r3)
                          ELSE Succeed(logLine(r3, "print", "%s\n", session)))
                          : r3 \in {Exec(logLine(r2, "INFO", "Dump layout not available, using session list:", <<>>),
                                     "zellij", <<zellijArg.listSessions>>)}} : TRUE)
                 : r2 \in {runZellijCommandWithSession(
                           logLine(r1, "INFO",
                                   "Getting layout information for zellij session '%s' (tabs/windows):", session),
                           session, <<zellijArg.action, zellijArg.dumpLayout>>)}} : TRUE)
        : r1 \in {zellijSessionExists(rs, session)}} : TRUE

\* sm.listWindows(session)
listWindows(rs, b, session) ==
    CASE b = BackendTmux ->
            Report(Exec(rs, "tmux", <<tmuxArg.listWindows, tmuxArg.t, session>>),
                   "Failed to list windows in tmux session '%s'", "", session)
      [] b = BackendZellij ->
            Report(zellijListWindows(rs, session),
                   "Failed to list tabs in zellij session '%s'", "", session)
      [] b = BackendScreen ->
            Report(Exec(rs, "screen", <<screenArg.S, session, screenArg.X, screenArg.windows>>),
                   "Failed to list windows in screen session '%s'", "", session)
      [] OTHER -> logLine(rs, "ERROR", "No available backend to list windows", <<>>)

\* sm.killWindow(session, window); screenKillWindow is a bare error
killWindow(rs, b, session, window) ==
    CASE b = BackendTmux ->
            Report(Exec(rs, "tmux", <<tmuxArg.killWindow, tmuxArg.t, WindowTarget(session, window)>>),
                   "Failed to kill window '%s' in tmux session '%s'",
                   "Window '%s' killed in tmux session '%s'", window)
      [] b = BackendZellij ->
            Report(zellijInSession(rs, session, <<zellijArg.closeTab>>),
                   "Failed to kill tab '%s' in zellij session '%s'",
                   "Tab '%s' killed in zellij session '%s'", window)
      [] b = BackendScreen ->
            Report(Fail(rs), "Failed to kill window in screen session '%s'",
                   "Window killed in screen session '%s'", session)
      [] OTHER -> logLine(rs, "ERROR", "No available backend to kill window", <<>>)

\* sm.nextWindow(session)
nextWindow(rs, b, session) ==
    CASE b = BackendTmux ->
            Report(Exec(rs, "tmux", <<tmuxArg.nextWindow, tmuxArg.t, session>>),
                   "Failed to switch to next window in tmux session '%s'",
                   "Switched to next window", session)
      [] b = BackendZellij ->
            Report(zellijInSession(rs, session, <<zellijArg.goToNextTab>>),
                   "Failed to switch to next tab in zellij session '%s'",
                   "Switched to next window", session)
      [] b = BackendScreen ->
            Report(Exec(rs, "screen", <<screenArg.S, session, screenArg.X, screenArg.next>>),
                   "Failed to switch to next window in screen session '%s'",
                   "Switched to next window", session)
      [] OTHER -> logLine(rs, "ERROR", "No available backend to switch windows", <<>>)

\* sm.previousWindow(session)
previousWindow(rs, b, session) ==
    CASE b = BackendTmux ->
            Report(Exec(rs, "tmux", <<tmuxArg.previousWindow, tmuxArg.t, session>>),
                   "Failed to switch to previous window in tmux session '%s'",
                   "Switched to previous window", session)
      [] b = BackendZellij ->
            Report(zellijInSession(rs, session, <<zellijArg.goToPreviousTab>>),
                   "Failed to switch to previous tab in zellij session '%s'",
                   "Switched to previous window", session)
      [] b = BackendScreen ->
            Report(Exec(rs, "screen", <<screenArg.S, session, screenArg.X, screenArg.prev>>),
                   "Failed to switch to previous window in screen session '%s'",
                   "Switched to previous window", session)
      [] OTHER -> logLine(rs, "ERROR", "No available backend to switch windows", <<>>)

\* `if !sm.sessionExists(name) { logError("Session '%s' does not exist"); return }`
\* at the head of a handler
NoSession(rs, name) == logLine(rs, "ERROR", "Session '%s' does not exist", name)

\* sm.attachSession(name)
attachSession(rs, b, name) ==
    CHOOSE x34 \in {(IF ~r.res THEN NoSession(r, name)
        ELSE CASE b = BackendTmux ->
                    Report(Exec(r, "tmux", <<tmuxArg.attachSession, tmuxArg.t, name>>),
                           "Failed to attach to tmux session '%s'", "", name)
              [] b = BackendZellij ->
                    Report(Exec(r, "zellij", <<zellijArg.attach, name>>),
                           "Failed to attach to zellij session '%s'", "", name)
              [] b = BackendScreen ->
                    Report(Exec(r, "screen", <<screenArg.r, name>>),
                           "Failed to attach to screen session '%s'", "", name)
              [] OTHER -> logLine(r, "ERROR", "No available backend to attach to session", <<>>))
        : r \in {sessionExists(rs, b, name)}} : TRUE

\* sm.detachSession(); zellijDetachSession is a bare error
detachSession(rs, b) ==
    CASE b = BackendTmux ->
            Report(Exec(rs, "tmux", <<tmuxArg.detachClient>>),
                   "Failed to detach from tmux session", "Detached from tmux session", <<>>)
      [] b = BackendZellij ->
            Report(Fail(rs), "Failed to detach from zellij session",
                   "Detached from zellij session", <<>>)
      [] b = BackendScreen ->
            Report(Exec(rs, "screen", <<screenArg.d>>),
                   "Failed to detach from screen session", "Detached from screen session", <<>>)
      [] OTHER -> logLine(rs, "ERROR", "No available backend to detach from session", <<>>)

\* zellijKillSession: delete-session, and delete-session --force when the
\* first one failed
zellijKillSession(rs, name) ==
    CHOOSE x33 \in {(IF ~r1.res THEN Fail(r1)
        ELSE CHOOSE x32 \in {(IF r2.err
                 THEN Exec(r2, "zellij", <<zellijArg.deleteSession, zellijArg.force, name>>)
                 ELSE Succeed(r2))
                 : r2 \in {Exec(r1, "zellij", <<zellijArg.deleteSession, name>>)}} : TRUE)
        : r1 \in {zellijSessionExists(rs, name)}} : TRUE

\* ScreenQuitStep without the comparison of the name part
ScreenQuitStepAnyName(line, all, name) ==
    IF ~(IsInfix(<<"(">>, line) /\ IsInfix(<<")">>, line)) \/ FirstField(line) = <<>>
    THEN <<>>
    ELSE FirstField(line)

\* one turn of the loops of killSession and nukeAllSessions over the lines
\* of `screen -ls`: the identifier to quit, <<>> when the line is passed
\* over.  killSession quits the first field pid.name of a line whose name
\* part is name, nukeAllSessions quits the pid of every line
ScreenQuitStep(line, all, name) ==
    LET part == FirstField(line)
        dot == IndexOf(part, ".")
    IN  IF ~(IsInfix(<<"(">>, line) /\ IsInfix(<<")">>, line)) \/ part = <<>> THEN <<>>
        ELSE IF all THEN (IF dot = 0 THEN part ELSE SubSeq(part, 1, dot - 1))
        ELSE IF dot = 0 \/ SubSeq(part, dot + 1, Len(part)) # name THEN <<>>
        ELSE part

\* the loop itself: rs.n counts the quits that succeeded.  (The run and the
\* lines are bound as values, v[1] and v[2].)
RECURSIVE ScreenQuitLoop(_, _, _, _)
ScreenQuitLoop(rs, i, all, name) ==
    CHOOSE x \in
        {IF i > Len(v[2]) THEN v[1]
         ELSE LET id == ScreenQuitStep(TrimSpace(v[2][i]), all, name)
                  r == Exec(v[1], "screen", <<screenArg.X, screenArg.S, id, screenArg.quit>>)
              IN  IF id = <<>> THEN ScreenQuitLoop(v[1], i + 1, all, name)
                  ELSE ScreenQuitLoop([r EXCEPT !.n = IF r.err THEN @ ELSE @ + 1],
                                      i + 1, all, name) :
            v \in {<<r0, SplitLines(r0.output)>> : r0 \in {rs}}} : TRUE

\* sm.killSession(name)
killSession(rs, b, name) ==
    CASE b = BackendTmux ->
            CHOOSE x31 \in {(IF ~r.res THEN NoSession(r, name)
                ELSE Report(Exec(r, "tmux", <<tmuxArg.killSession, tmuxArg.t, name>>),
                            "Failed to kill tmux session '%s'", "Killed tmux session '%s'", name))
                : r \in {sessionExists(rs, b, name)}} : TRUE
      [] b = BackendZellij ->
            CHOOSE x30 \in {(IF ~r.res THEN NoSession(r, name)
                ELSE Report(zellijKillSession(r, name),
                            "Failed to kill zellij session '%s'", "Killed zellij session '%s'", name))
                : r \in {sessionExists(rs, b, name)}} : TRUE
      [] b = BackendScreen ->
            CHOOSE x29 \in {(IF r1.err THEN logLine(r1, "ERROR", "Session '%s' does not exist", name)
                ELSE CHOOSE x28 \in {(IF r2.n > 0
                         THEN logLine(r2, "INFO", "Killed %d screen session(s) named '%s'", name)
                         ELSE logLine(r2, "ERROR", "Session '%s' does not exist", name))
                         : r2 \in {ScreenQuitLoop(r1, 1, FALSE, name)}} : TRUE)
                : r1 \in {Exec(rs, "screen", <<screenArg.ls>>)}} : TRUE
      [] OTHER -> logLine(rs, "ERROR", "No available backend to kill session", <<>>)

\* the fallback loop of zellijNukeAllSessions over the lines of
\* `zellij list-sessions`: the name is the first field of the line without
\* its colour codes.  (The run and the lines are bound as values, v[1] and
\* v[2].)
RECURSIVE ZellijDeleteLoop(_, _)
ZellijDeleteLoop(rs, i) ==
    CHOOSE x \in
        {IF i > Len(v[2]) THEN v[1]
         ELSE LET sessionName == FirstField(StripANSI(TrimSpace(v[2][i])))
                  r1 == Exec(v[1], "zellij", <<zellijArg.deleteSession, sessionName>>)
                  r2 == IF r1.err
                        THEN Exec(r1, "zellij",
                                  <<zellijArg.deleteSession, zellijArg.force, sessionName>>)
                        ELSE r1
              IN  IF sessionName = <<>> THEN ZellijDeleteLoop(v[1], i + 1)
                  ELSE ZellijDeleteLoop([r2 EXCEPT !.n = @ + 1], i + 1) :
            v \in {<<r0, SplitLines(r0.output)>> : r0 \in {rs}}} : TRUE

\* zellijNukeAllSessions
zellijNukeAllSessions(rs) ==
    CHOOSE x27 \in {(IF ~r1.err THEN r1
        ELSE CHOOSE x26 \in {(IF r2.err THEN Fail(r2)
                 ELSE CHOOSE x25 \in {(IF r3.n = 0 THEN Fail(r3) ELSE Succeed(r3))
                          : r3 \in {ZellijDeleteLoop(r2, 1)}} : TRUE)
                 : r2 \in {Exec(r1, "zellij", <<zellijArg.listSessions>>)}} : TRUE)
        : r1 \in {Exec(rs, "zellij", <<zellijArg.deleteAllSessions, zellijArg.y, zellijArg.f>>)}} : TRUE

\* sm.nukeAllSessions()
nukeAllSessions(rs, b) ==
    CASE b = BackendTmux ->
            Report(Exec(rs, "tmux", <<tmuxArg.killServer>>),
                   "Failed to kill all tmux sessions", "Killed all tmux sessions", <<>>)
      [] b = BackendZellij ->
            Report(zellijNukeAllSessions(rs),
                   "Failed to kill all zellij sessions", "Killed all zellij sessions", <<>>)
      [] b = BackendScreen ->
            CHOOSE x24 \in {(IF r1.err THEN logLine(r1, "ERROR", "No screen sessions found", <<>>)
                ELSE CHOOSE x23 \in {(IF r2.n > 0
                         THEN logLine(r2, "INFO", "Killed %d screen sessions", <<>>)
                         ELSE logLine(r2, "WARNING", "No screen sessions were killed", <<>>))
                         : r2 \in {ScreenQuitLoop(r1, 1, TRUE, <<>>)}} : TRUE)
                : r1 \in {Exec(rs, "screen", <<screenArg.ls>>)}} : TRUE
      [] OTHER -> logLine(rs, "ERROR", "No available backend to nuke sessions", <<>>)

\* sm.renameSession(oldName, newName)
renameSession(rs, b, oldName, newName) ==
    CHOOSE x22 \in {(IF ~r.res THEN NoSession(r, oldName)
        ELSE CASE b = BackendTmux ->
                    Report(Exec(r, "tmux", <<tmuxArg.renameSession, tmuxArg.t, oldName, newName>>),
                           "Failed to rename tmux session from '%s' to '%s'",
                           "Renamed tmux session from '%s' to '%s'", oldName)
              [] b = BackendZellij ->
                    logLine(r, "ERROR", "Session renaming is not supported in zellij", <<>>)
              [] b = BackendScreen ->
                    logLine(r, "ERROR", "Session renaming is not supported in GNU Screen", <<>>)
              [] OTHER -> logLine(r, "ERROR", "No available backend to rename session", <<>>))
        : r \in {sessionExists(rs, b, oldName)}} : TRUE

\* zellijRenameWindow, zellijMoveWindow, zellijSwapWindow, zellijRenameSession,
\* zellijDetachSession: `return fmt.Errorf(...)` and nothing else
zellijUnsupported(rs) == Fail(rs)

\* sm.renameWindow(session, oldName, newName)
renameWindow(rs, b, session, oldName, newName) ==
    CHOOSE x21 \in {(IF ~r.res THEN NoSession(r, session)
        ELSE CASE b = BackendTmux ->
                    Report(Exec(r, "tmux", <<tmuxArg.renameWindow, tmuxArg.t,
                                             WindowTarget(session, oldName), newName>>),
                           "Failed to rename window from '%s' to '%s' in tmux session '%s'",
                           "Renamed window from '%s' to '%s' in tmux session '%s'", oldName)
              [] b = BackendZellij ->
                    Report(zellijUnsupported(r),
                           "Failed to rename tab in zellij session '%s': %v",
                           "Renamed tab from '%s' to '%s' in zellij session '%s'", session)
              [] b = BackendScreen ->
                    Report(Exec(r, "screen", <<screenArg.S, session, screenArg.X,
                                               screenArg.title, newName>>),
                           "Failed to rename window in screen session '%s'",
                           "Renamed window to '%s' in screen session '%s'", session)
              [] OTHER -> logLine(r, "ERROR", "Backend %v does not support window renaming", <<>>))
        : r \in {sessionExists(rs, b, session)}} : TRUE

\* sm.moveWindow(srcSession, windowName, dstSession): the destination is
\* looked up only when the source exists
moveWindow(rs, b, srcSession, windowName, dstSession) ==
    CHOOSE x19 \in {(
      CHOOSE x20 \in {(IF ~r2.res
        THEN logLine(r2, "ERROR",
                     "Either source session '%s' or destination session '%s' does not exist", srcSession)
        ELSE CASE b = BackendTmux ->
                    Report(Exec(r2, "tmux", <<tmuxArg.moveWindow, tmuxArg.s,
                                              WindowTarget(srcSession, windowName),
                                              tmuxArg.t, dstSession>>),
                           "Failed to move window '%s' from session '%s' to session '%s'",
                           "Moved window '%s' from session '%s' to session '%s'", windowName)
               [] b = BackendZellij ->
                    logLine(r2, "ERROR", "Moving windows between sessions is not supported in zellij", <<>>)
               [] b = BackendScreen ->
                    logLine(r2, "ERROR", "Moving windows between sessions is not supported in GNU Screen", <<>>)
               [] OTHER -> logLine(r2, "ERROR", "Backend %v does not support moving windows", <<>>))
        : r2 \in {IF r1.res THEN sessionExists(r1, b, dstSession) ELSE r1}} : TRUE)
        : r1 \in {sessionExists(rs, b, srcSession)}} : TRUE

\* sm.swapWindow(session, windowName1, windowName2)
swapWindow(rs, b, session, windowName1, windowName2) ==
    CHOOSE x18 \in {(IF ~r.res THEN NoSession(r, session)
        ELSE CASE b = BackendTmux ->
                    Report(Exec(r, "tmux", <<tmuxArg.swapWindow, tmuxArg.s,
                                             WindowTarget(session, windowName1), tmuxArg.t,
                                             WindowTarget(session, windowName2)>>),
                           "Failed to swap windows '%s' and '%s' in tmux session '%s'",
                           "Swapped windows '%s' and '%s' in tmux session '%s'", windowName1)
              [] b = BackendZellij ->
                    logLine(r, "ERROR", "Swapping windows is not supported in zellij", <<>>)
              [] b = BackendScreen ->
                    logLine(r, "ERROR", "Swapping windows is not supported in GNU Screen", <<>>)
              [] OTHER -> logLine(r, "ERROR", "Backend %v does not support swapping windows", <<>>))
        : r \in {sessionExists(rs, b, session)}} : TRUE

\* zellijSplitWindow
zellijSplitWindow(rs, session, window, direction) ==
    CHOOSE x17 \in {(IF ~r1.res THEN Fail(r1)
        ELSE IF direction = <<"v">>
        THEN runZellijCommandWithSession(r1, session,
                 <<zellijArg.action, zellijArg.newPane, zellijArg.direction, zellijArg.down>>)
        ELSE IF direction = <<"h">>
        THEN runZellijCommandWithSession(r1, session,
                 <<zellijArg.action, zellijArg.newPane, zellijArg.direction, zellijArg.right>>)
        ELSE Fail(r1))
        : r1 \in {zellijSessionExists(rs, session)}} : TRUE

\* sm.splitWindow(session, window, direction)
splitWindow(rs, b, session, window, direction) ==
    CHOOSE x16 \in {(IF ~r.res THEN NoSession(r, session)
        ELSE CASE b = BackendTmux ->
                    Report(Exec(r, "tmux", <<tmuxArg.splitWindow,
                                             IF direction = <<"h">> THEN tmuxArg.h ELSE tmuxArg.v,
                                             tmuxArg.t, WindowTarget(session, window)>>),
                           "Failed to split window '%s' in tmux session '%s'",
                           "Split window '%s' %s in tmux session '%s'", window)
              [] b = BackendZellij ->
                    Report(zellijSplitWindow(r, session, window, direction),
                           "Failed to split pane in zellij session '%s': %v",
                           "Split pane %s in zellij session '%s'", session)
              [] b = BackendScreen ->
                    IF direction = <<"v">>
                    THEN Report(Exec(r, "screen", <<screenArg.S, session, screenArg.X,
                                                    screenArg.split>>),
                                "Failed to split window in screen session '%s'",
                                "Split window vertically in screen session '%s'", session)
                    ELSE logLine(r, "ERROR",
                                 "Horizontal window splitting is not supported in GNU Screen", <<>>)
              [] OTHER -> logLine(r, "ERROR", "Backend %v does not support window splitting", <<>>))
        : r \in {sessionExists(rs, b, session)}} : TRUE

\* the same loop without the break
RECURSIVE FocusWalkNoBreak(_, _, _, _)
FocusWalkNoBreak(rs, session, i, targetPane) ==
    IF i >= targetPane THEN rs
    ELSE FocusWalkNoBreak(runZellijCommandWithSession(rs, session,
                              <<zellijArg.action, zellijArg.focusNextPane>>),
                          session, i + 1, targetPane)

\* the loop of zellijFocusPane: `for i := 1; i < targetPane; i++`, left at
\* the first focus-next-pane that fails
RECURSIVE FocusWalk(_, _, _, _)
FocusWalk(rs, session, i, targetPane) ==
    IF i >= targetPane THEN rs
    ELSE CHOOSE x15 \in {(IF r.err THEN r ELSE FocusWalk(r, session, i + 1, targetPane))
             : r \in {runZellijCommandWithSession(rs, session,
                      <<zellijArg.action, zellijArg.focusNextPane>>)}} : TRUE

\* zellijFocusPane
zellijFocusPane(rs, session, window, pane) ==
    CHOOSE x14 \in {(IF ~r1.res THEN Fail(r1)
        ELSE IF pane = <<>> \/ pane = <<"0">> THEN Succeed(r1)
        ELSE LET r2 == runZellijCommandWithSession(r1, session,
                           <<zellijArg.action, zellijArg.moveFocusOrTab, zellijArg.left>>)
                 r3 == runZellijCommandWithSession(r2, session,
                           <<zellijArg.action, zellijArg.moveFocusOrTab, zellijArg.up>>)
                 p == Atoi(pane)
                 targetPane == IF ~p.err /\ p.n > 0 THEN p.n ELSE 1
             IN  Succeed(FocusWalk(r3, session, 1, targetPane)))
        : r1 \in {zellijSessionExists(rs, session)}} : TRUE

\* the focus step of zellijKillPane, zellijResizePane and zellijSendKeys:
\* a failure of zellijFocusPane is only logged
zellijFocused(rs, session, window, pane) ==
    CHOOSE x13 \in {(IF r.err THEN logLine(r, "ERROR", "Failed to focus pane %s: %v", pane) ELSE r)
        : r \in {zellijFocusPane(rs, session, window, pane)}} : TRUE

\* zellijListPanes
zellijListPanes(rs, session, window) ==
    CHOOSE x12 \in {(IF ~r1.res THEN Fail(r1)
        ELSE runZellijCommandWithSession(
                 logLine(r1, "INFO", "Listing panes for zellij session (focus-based operations)", <<>>),
                 session, <<zellijArg.action, zellijArg.dumpScreen, zellijArg.devStdout>>))
        : r1 \in {zellijSessionExists(rs, session)}} : TRUE

\* sm.listPanes(session, window)
listPanes(rs, b, session, window) ==
    CHOOSE x11 \in {(IF ~r.res THEN NoSession(r, session)
        ELSE CASE b = BackendTmux ->
                    Report(Exec(r, "tmux", <<tmuxArg.listPanes, tmuxArg.t,
                                             WindowTarget(session, window)>>),
                           "Failed to list panes in window '%s' of tmux session '%s'", "", window)
              [] b = BackendZellij ->
                    Report(zellijListPanes(r, session, window),
                           "Failed to list panes in zellij session '%s': %v", "", session)
              [] b = BackendScreen ->
                    logLine(r, "ERROR", "Listing panes is not supported in GNU Screen", <<>>)
              [] OTHER -> logLine(r, "ERROR", "Backend %v does not support listing panes", <<>>))
        : r \in {sessionExists(rs, b, session)}} : TRUE

\* zellijKillPane
zellijKillPane(rs, session, window, pane) ==
    CHOOSE x9 \in {(
      CHOOSE x10 \in {(IF ~r1.res THEN Fail(r1)
        ELSE runZellijCommandWithSession(
                       logLine(r, "INFO",
                               "Killing focused pane in zellij session '%s' (target pane: %s)", session),
                       session, <<zellijArg.action, zellijArg.closePane>>))
        : r \in {zellijFocused(r1, session, window, pane)}} : TRUE)
        : r1 \in {zellijSessionExists(rs, session)}} : TRUE

\* sm.killPane(session, window, pane)
killPane(rs, b, session, window, pane) ==
    CHOOSE x8 \in {(IF ~r.res THEN NoSession(r, session)
        ELSE CASE b = BackendTmux ->
                    Report(Exec(r, "tmux", <<tmuxArg.killPane, tmuxArg.t,
                                             PaneTarget(session, window, pane)>>),
                           "Failed to kill pane '%s' in window '%s' of tmux session '%s'",
                           "Killed pane '%s' in window '%s' of tmux session '%s'", pane)
              [] b = BackendZellij ->
                    Report(zellijKillPane(r, session, window, pane),
                           "Failed to close pane in zellij session '%s': %v",
                           "Closed pane in zellij session '%s'", session)
              [] b = BackendScreen ->
                    logLine(r, "ERROR", "Killing panes is not supported in GNU Screen", <<>>)
              [] OTHER -> logLine(r, "ERROR", "Backend %v does not support killing panes", <<>>))
        : r \in {sessionExists(rs, b, session)}} : TRUE

\* a resizeFlag that is -U whatever the direction
ResizeFlagAlwaysUp(direction) == tmuxArg.U

\* resizeFlag of resizePane and tmuxResizePane: -U unless D, L or R
ResizeFlag(direction) ==
    IF direction = <<"D">> THEN tmuxArg.D
    ELSE IF direction = <<"L">> THEN tmuxArg.L
    ELSE IF direction = <<"R">> THEN tmuxArg.R
    ELSE tmuxArg.U

\* tmuxResizePane, and the same lines inside resizePane
tmuxResizePane(rs, session, window, pane, direction, size) ==
    Exec(rs, "tmux", <<tmuxArg.resizePane, ResizeFlag(direction), Itoa(size),
                       tmuxArg.t, PaneTarget(session, window, pane)>>)

\* the loop of zellijResizePane: `for i := 0; i < size; i++`, returning the
\* first error
RECURSIVE ResizeLoop(_, _, _, _, _)
ResizeLoop(rs, session, dir, i, size) ==
    IF i >= size THEN Succeed(rs)
    ELSE CHOOSE x7 \in {(IF r.err THEN r ELSE ResizeLoop(r, session, dir, i + 1, size))
             : r \in {runZellijCommandWithSession(rs, session,
                      <<zellijArg.action, zellijArg.resize, dir>>)}} : TRUE

\* zellijResizePane
zellijResizePane(rs, session, window, pane, direction, size) ==
    CHOOSE x5 \in {(
      CHOOSE x6 \in {(IF ~r1.res THEN Fail(r1)
        ELSE IF direction \notin {<<"U">>, <<"D">>, <<"L">>, <<"R">>} THEN Fail(r)
            ELSE ResizeLoop(
                     logLine(r, "INFO",
                             "Resizing focused pane in zellij session '%s' (target pane: %s, direction: %s, size: %d)",
                             session),
                     session,
                     CASE direction = <<"U">> -> zellijArg.up
                       [] direction = <<"D">> -> zellijArg.down
                       [] direction = <<"L">> -> zellijArg.left
                       [] direction = <<"R">> -> zellijArg.right,
                     0, size))
        : r \in {zellijFocused(r1, session, window, pane)}} : TRUE)
        : r1 \in {zellijSessionExists(rs, session)}} : TRUE

\* sm.resizePane(session, window, pane, direction, size)
resizePane(rs, b, session, window, pane, direction, size) ==
    CHOOSE x4 \in {(IF ~r.res THEN NoSession(r, session)
        ELSE CASE b = BackendTmux ->
                    Report(tmuxResizePane(r, session, window, pane, direction, size),
                           "Failed to resize pane '%s' in window '%s' of tmux session '%s'",
                           "Resized pane '%s' in window '%s' of tmux session '%s'", pane)
              [] b = BackendZellij ->
                    Report(zellijResizePane(r, session, window, pane, direction, size),
                           "Failed to resize pane in zellij session '%s': %v",
                           "Resized pane in zellij session '%s'", session)
              [] b = BackendScreen ->
                    logLine(r, "ERROR", "Resizing panes is not supported in GNU Screen", <<>>)
              [] OTHER -> logLine(r, "ERROR", "Backend %v does not support resizing panes", <<>>))
        : r \in {sessionExists(rs, b, session)}} : TRUE

\* zellijSendKeys
zellijSendKeys(rs, session, window, pane, keys) ==
    CHOOSE x2 \in {(
      CHOOSE x3 \in {(IF ~r1.res THEN Fail(r1)
        ELSE runZellijCommandWithSession(
                       logLine(r, "INFO",
                               "Sending keys to focused pane in zellij session '%s' (target pane: %s)", session),
                       session, <<zellijArg.action, zellijArg.writeChars, keys>>))
        : r \in {zellijFocused(r1, session, window, pane)}} : TRUE)
        : r1 \in {zellijSessionExists(rs, session)}} : TRUE

\* sm.sendKeys(session, window, pane, keys)
sendKeys(rs, b, session, window, pane, keys) ==
    CHOOSE x1 \in {(IF ~r.res THEN NoSession(r, session)
        ELSE CASE b = BackendTmux ->
                    Report(Exec(r, "tmux", <<tmuxArg.sendKeys, tmuxArg.t,
                                             PaneTarget(session, window, pane), keys>>),
                           "Failed to send keys to pane '%s' in window '%s' of tmux session '%s'",
                           "Sent keys to pane '%s' in window '%s' of tmux session '%s'", pane)
              [] b = BackendZellij ->
                    Report(zellijSendKeys(r, session, window, pane, keys),
                           "Failed to send keys to zellij session '%s': %v",
                           "Sent keys to zellij session '%s'", session)
              [] b = BackendScreen ->
                    logLine(r, "ERROR", "Sending keys to panes is not supported in GNU Screen", <<>>)
              [] OTHER -> logLine(r, "ERROR", "Backend %v does not support sending keys to panes", <<>>))
        : r \in {sessionExists(rs, b, session)}} : TRUE

-----------------------------------------------------------------------------
(* Spec: one run of main, from os.Args to the exit status *)

sBogusVerb == <<"f","r","o","b">>

\* argument lists without the verbose flag
BaseArgs ==
    { <<>>, <<sList>>, <<sHelp>>, <<sBogusVerb>>,
      <<sConfig>>, <<sConfig, sShow>>, <<sConfig, sBogusVerb>>,
      <<sConfig, sGet>>, <<sConfig, sGet, sBackend>>, <<sConfig, sGet, sColor>>,
      <<sConfig, sSet, sBackend>>, <<sConfig, sSet, sColor, sScreen>> } \cup
    { <<sConfig, sSet, sBackend, v>> : v \in {sTmux, sZellij, ToUpper(sScreen), sBogus} }

\* os.Args[1..] as the user typed them
RawArgs ==
    BaseArgs \cup {Append(a, sDashV) : a \in BaseArgs}
             \cup {<<sVerboseFlag>> \o a : a \in {<<sList>>, <<sConfig, sGet, sBackend>>}}

\* hosts a run of main starts on
MainFileStates ==
    {<<f1, NoFile, NoFile>> :
        f1 \in {NoFile, Unreadable(<<>>), File(Line(sDefaultBackend, sZellij)),
                File(Line(sBackend, sBogus))}}

MainEnvValues == {<<>>, sScreen, sBogus}

Init ==
    /\ hostPath \in SUBSET Backends
    /\ hostCommon \in SUBSET {BackendTmux, BackendZellij}
    /\ homeOK \in BOOLEAN
    /\ envBackend \in MainEnvValues
    /\ files \in MainFileStates
    /\ pc = "start"
    /\ args \in RawArgs
    /\ verbose = FALSE
    /\ sm = ZeroSM
    /\ out = <<>>
    /\ exitCode = -1
    /\ spawned = <<>>
    /\ lastSet = <<>>
    /\ FnNone

\* os.Exit(code) after writing lines
Exit(code, lines) ==
    /\ pc' = "exited"
    /\ exitCode' = code
    /\ out' = out \o lines

\* displayHelp()
HelpText == <<Log("help", "Usage: txm [command] [arguments]", <<>>)>>

\* main: the verbose flag is found and stripped from os.Args
MainFlags ==
    /\ pc = "start"
    /\ verbose' = (\E i \in 1..Len(args) : IsVerboseFlag(args[i]))
    /\ args' = IF \E i \in 1..Len(args) : IsVerboseFlag(args[i])
               THEN SelectSeq(args, NotVerboseFlag)
               ELSE args
    /\ pc' = "new"
    /\ UNCHANGED <<hostVars, sm, out, exitCode, spawned, fnIn, fnOut, lastSet>>

\* main: sm := NewSessionManager(verbose)
MainNewSessionManager ==
    /\ pc = "new"
    /\ LET r == NewSessionManager(verbose, homeOK, files, envBackend, hostPath, hostCommon)
       IN  /\ sm' = r.sm
           /\ out' = out \o r.out
           /\ pc' = IF r.panic THEN "panic" ELSE "check"
           /\ exitCode' = IF r.panic THEN 2 ELSE exitCode
    /\ UNCHANGED <<hostVars, args, verbose, spawned, fnIn, fnOut, lastSet>>

\* main: the verbose report of the available backends and the one in use
VerboseInfo ==
    IF verbose
    THEN << Log("INFO", "Available backends: %s",
                JoinNames(AvailableOf(sm, hostPath, AllBackends))),
            Log("INFO", "Using backend: %s", String(sm.currentBackend)) >>
    ELSE <<>>

\* main: "Check if any backend is available"
MainCheckBackend ==
    /\ pc = "check"
    /\ IF ~isBackendAvailable(sm, hostPath, sm.currentBackend)
       THEN IF ~(sm.tmuxAvailable \/ sm.zellijAvailable \/ BackendScreen \in hostPath)
            THEN Exit(1, <<Log("ERROR", "None of tmux, zellij, or screen is installed. Please install at least one and try again.", <<>>)>>)
            ELSE /\ out' = out \o <<Log("WARNING", "Configured backend '%s' is not available. Using fallback.",
                                        String(sm.currentBackend))>> \o VerboseInfo
                 /\ pc' = "dispatch"
                 /\ UNCHANGED exitCode
       ELSE /\ out' = out \o VerboseInfo
            /\ pc' = "dispatch"
            /\ UNCHANGED exitCode
    /\ UNCHANGED <<hostVars, args, verbose, sm, spawned, fnIn, fnOut, lastSet>>

\* main: len(os.Args) < 2
DispatchNoArgs ==
    /\ pc = "dispatch"
    /\ Len(args) < 1
    /\ Exit(1, HelpText)
    /\ UNCHANGED <<hostVars, args, verbose, sm, spawned, fnIn, fnOut, lastSet>>

\* case "list": sm.listSessions(), which reads no session name
DispatchList ==
    /\ pc = "dispatch"
    /\ Len(args) >= 1
    /\ args[1] = sList
    /\ \E fails \in FailSets :
          \E rs \in {listSessions(NewRun(fails, <<>>), sm.currentBackend)} :
              /\ spawned' = spawned \o rs.cmds
              /\ Exit(0, rs.out)
    /\ UNCHANGED <<hostVars, args, verbose, sm, fnIn, fnOut, lastSet>>

\* case "config", subcommand "set"
DispatchConfigSet ==
    /\ pc = "dispatch"
    /\ Len(args) >= 1
    /\ args[1] = sConfig
    /\ getArg(args, 2, <<>>) = sSet
    /\ LET key   == getArg(args, 3, <<>>)
           value == getArg(args, 4, <<>>)
       IN  IF key = <<>> \/ value = <<>>
           THEN /\ Exit(1, <<Log("ERROR", "Usage: txm config set <key> <value>", <<>>),
                             Log("ERROR", "Available keys: backend", <<>>)>>)
                /\ UNCHANGED <<sm, files>>
           ELSE \E ioOK \in BOOLEAN :
                   LET r == setConfigValue(sm, key, value, homeOK, files, hostPath, ioOK)
                   IN  /\ sm' = r.sm
                       /\ files' = r.files
                       /\ Exit(IF r.err THEN 1 ELSE 0, r.out)
    /\ UNCHANGED <<hostPath, hostCommon, homeOK, envBackend, args, verbose, spawned,
                   fnIn, fnOut, lastSet>>

\* case "config", subcommand "get"
DispatchConfigGet ==
    /\ pc = "dispatch"
    /\ Len(args) >= 1
    /\ args[1] = sConfig
    /\ getArg(args, 2, <<>>) = sGet
    /\ LET key == getArg(args, 3, <<>>)
       IN  IF key = <<>>
           THEN Exit(1, <<Log("ERROR", "Usage: txm config get <key>", <<>>),
                          Log("ERROR", "Available keys: backend", <<>>)>>)
           ELSE LET r == getConfigValue(sm, key)
                IN  Exit(IF r.err THEN 1 ELSE 0, r.out)
    /\ UNCHANGED <<hostVars, args, verbose, sm, spawned, fnIn, fnOut, lastSet>>

\* case "config", subcommand "show" and the default subcommand
DispatchConfigOther ==
    /\ pc = "dispatch"
    /\ Len(args) >= 1
    /\ args[1] = sConfig
    /\ getArg(args, 2, <<>>) \notin {sSet, sGet}
    /\ IF getArg(args, 2, <<>>) = sShow
       THEN /\ pc' = "exited"
            /\ exitCode' = 0
            /\ out' = out \o showCurrentConfig(sm, hostPath)
       ELSE Exit(1, <<Log("ERROR", "Usage: txm config <set|get|show>", <<>>)>>)
    /\ UNCHANGED <<hostVars, args, verbose, sm, spawned, fnIn, fnOut, lastSet>>

\* case "help"
DispatchHelp ==
    /\ pc = "dispatch"
    /\ Len(args) >= 1
    /\ args[1] = sHelp
    /\ Exit(0, HelpText)
    /\ UNCHANGED <<hostVars, args, verbose, sm, spawned, fnIn, fnOut, lastSet>>

\* default: an unknown verb
DispatchInvalid ==
    /\ pc = "dispatch"
    /\ Len(args) >= 1
    /\ args[1] \notin Verbs
    /\ Exit(1, <<Log("ERROR", "Invalid command", <<>>)>> \o HelpText)
    /\ UNCHANGED <<hostVars, args, verbose, sm, spawned, fnIn, fnOut, lastSet>>

Next ==
    \/ MainFlags
    \/ MainNewSessionManager
    \/ MainCheckBackend
    \/ DispatchNoArgs
    \/ DispatchList
    \/ DispatchConfigSet
    \/ DispatchConfigGet
    \/ DispatchConfigOther
    \/ DispatchHelp
    \/ DispatchInvalid

Spec == Init /\ [][Next]_vars

NoneInstalled == hostPath = {} /\ hostCommon = {}

FatalReported ==
    \E i \in 1..Len(out) :
        /\ out[i].lvl = "ERROR"
        /\ out[i].msg = "None of tmux, zellij, or screen is installed. Please install at least one and try again."

\* C3: in a run where none of tmux, zellij and screen is available, whatever
\* the verb and arguments, the process reports the fatal "none installed"
\* error and exits non-zero, and no backend subprocess is started before that.
C3_NoneInstalledIsFatal ==
    NoneInstalled =>
        /\ spawned = <<>>
        /\ pc # "dispatch"
        /\ pc \in {"exited", "panic"} => (exitCode # 0 /\ FatalReported)

\* C10: NewSessionManager never crashes and leaves a configuration that is
\* not nil, whatever the state of the config file and the verbose flag.
C10_LoadNeverFatal ==
    /\ pc # "panic"
    /\ pc \in {"check", "dispatch", "exited"} => ~sm.config.nil

-----------------------------------------------------------------------------
(* SpecConfig: NewSessionManager, setConfigValue and getConfigValue called  *)
(* in any order; every NewSessionManager is a freshly started process on    *)
(* the same host.  out holds what the last call wrote, fnOut what it was.   *)

CfgFileStates ==
    {<<f1, f2, NoFile>> :
        f1 \in {NoFile, Unreadable(<<>>), File(Line(sDefaultBackend, sZellij))},
        f2 \in {File(Line(sBackend, sScreen))}}

CfgEnvValues == {<<>>, sZellij}

CfgKeys == {sBackend, sColor}

CfgValues == {sTmux, sZellij, sScreen, sBogus}

ConfigInit ==
    /\ hostPath \in SUBSET Backends
    /\ hostCommon = {}
    /\ homeOK \in BOOLEAN
    /\ envBackend \in CfgEnvValues
    /\ files \in CfgFileStates
    /\ pc = "none"
    /\ args = <<>>
    /\ verbose = FALSE
    /\ sm = ZeroSM
    /\ out = <<>>
    /\ exitCode = -1
    /\ spawned = <<>>
    /\ fnIn = <<>>
    /\ fnOut = [op |-> "none", err |-> FALSE]
    /\ lastSet = <<>>

\* a process starts: sm := NewSessionManager(v)
CfgNew(v) ==
    /\ \E r \in {NewSessionManager(v, homeOK, files, envBackend, hostPath, hostCommon)} :
           /\ sm' = r.sm
           /\ out' = r.out
           /\ pc' = IF r.panic THEN "panic" ELSE "live"
    /\ verbose' = v
    /\ fnOut' = [op |-> "new", err |-> FALSE]
    /\ lastSet' = IF lastSet = <<>> THEN <<>>
                  ELSE <<[lastSet[1] EXCEPT !.fresh = TRUE]>>
    /\ UNCHANGED <<hostVars, args, exitCode, spawned, fnIn>>

\* setConfigValue(sm, key, value).  lastSet remembers the last
\* `set backend <name>` with a lower-case backend name: the backend, whether
\* the call returned nil, whether a process was started since.
CfgSet(key, value, ioOK) ==
    /\ pc = "live"
    /\ \E r \in {setConfigValue(sm, key, value, homeOK, files, hostPath, ioOK)} :
           /\ sm' = r.sm
           /\ files' = r.files
           /\ out' = r.out
           /\ fnOut' = [op |-> "set", err |-> r.err]
           /\ lastSet' =
                IF ToLower(key) = sBackend /\ \E b \in Backends : value = String(b)
                THEN <<[tried |-> CHOOSE b \in Backends : value = String(b),
                        ok    |-> ~r.err,
                        fresh |-> FALSE]>>
                ELSE IF r.sm = sm /\ r.files = files THEN lastSet
                ELSE <<>>
    /\ UNCHANGED <<hostPath, hostCommon, homeOK, envBackend, pc, args, verbose,
                   exitCode, spawned, fnIn>>

\* getConfigValue(sm, key)
CfgGet(key) ==
    /\ pc = "live"
    /\ LET r == getConfigValue(sm, key)
       IN  /\ out' = r.out
           /\ fnOut' = [op |-> "get", err |-> r.err]
    /\ UNCHANGED <<hostVars, pc, args, verbose, sm, exitCode, spawned, fnIn, lastSet>>

ConfigNext ==
    \/ \E v \in BOOLEAN : CfgNew(v)
    \/ \E key \in CfgKeys, value \in CfgValues, ioOK \in BOOLEAN : CfgSet(key, value, ioOK)
    \/ \E key \in CfgKeys : CfgGet(key)

SpecConfig == ConfigInit /\ [][ConfigNext]_vars

\* `config get backend` has just printed a value
GotBackend == pc = "live" /\ fnOut.op = "get" /\ ~fnOut.err

Printed(b) == out = <<Log("print", "%s\n", String(b))>>

\* C9 as claimed: after `config set backend b` has run, `config get backend`
\* prints b, in the same process and in a freshly started one.
C9_SetThenGetAlways ==
    (GotBackend /\ lastSet # <<>>) => Printed(lastSet[1].tried)

\* C9 as amended: after `config set backend b` has succeeded, `config get
\* backend` prints b in the same process, and in a freshly started process
\* when TXM_DEFAULT_BACKEND is unset and ~/.txm/config can be read.
C9_SetThenGet ==
    (/\ GotBackend
     /\ lastSet # <<>>
     /\ lastSet[1].ok
     /\ lastSet[1].fresh => (envBackend = <<>> /\ files[SavePath].readable))
        => Printed(lastSet[1].tried)

\* C9 witness: screen was set while the file named zellij, a new process
\* loaded the configuration again and printed screen.
C9_Witness ==
    /\ GotBackend
    /\ lastSet # <<>>
    /\ lastSet[1].ok
    /\ lastSet[1].fresh
    /\ lastSet[1].tried = BackendScreen
    /\ envBackend = <<>>
    /\ files[2].exists
    /\ Printed(BackendScreen)

-----------------------------------------------------------------------------
(* The fallback list of the configuration *)

\* every known backend occurs in order exactly once
EachBackendOnce(order) ==
    \A b \in Backends : Cardinality({i \in 1..Len(order) : order[i] = b}) = 1

\* C11: whenever the process holds a configuration (loaded from the defaults,
\* the file or the environment, and after any sequence of `config set`), its
\* fallback list contains each of tmux, zellij and screen exactly once.
C11_FallbackListComplete ==
    ~sm.config.nil =>
        /\ Len(sm.config.BackendOrder) = Cardinality(Backends)
        /\ EachBackendOnce(sm.config.BackendOrder)

\* C11 witness: a configuration loaded from a file, changed by a successful
\* `config set backend` and loaded again by a new process.
C11_Witness ==
    /\ pc = "live"
    /\ ~sm.config.nil
    /\ lastSet # <<>>
    /\ lastSet[1].ok
    /\ lastSet[1].fresh
    /\ sm.config.DefaultBackend # BackendTmux
    /\ EachBackendOnce(sm.config.BackendOrder)


-----------------------------------------------------------------------------
(* main's switch over the session, window and pane verbs *)

\* the verbs of main's switch that take a session, by the number of
\* arguments the `case` requires
SessionVerbs == {txmVerb.create, txmVerb.attach, txmVerb.detach, txmVerb.delete, txmVerb.nuke}

WindowVerbs ==
    {txmVerb.newWindow, txmVerb.listWindows, txmVerb.killWindow, txmVerb.nextWindow,
     txmVerb.prevWindow, txmVerb.renameSession, txmVerb.renameWindow, txmVerb.moveWindow,
     txmVerb.swapWindow, txmVerb.splitWindow}

PaneVerbs == {txmVerb.listPanes, txmVerb.killPane, txmVerb.resizePane, txmVerb.sendKeys}

\* true when one of os.Args[2..n] is missing or empty
Missing(a, n) == \E i \in 2..n : getArg(a, i, <<>>) = <<>>

\* the argument check at the head of each `case`: the error it logs before
\* displayHelp() and os.Exit(1), "" when the handler is called
UsageError(a) ==
    CASE a[1] \in {txmVerb.create, txmVerb.attach, txmVerb.delete, txmVerb.listWindows,
                   txmVerb.nextWindow, txmVerb.prevWindow} ->
            IF Missing(a, 2) THEN "Please specify a session name" ELSE ""
      [] a[1] \in {txmVerb.newWindow, txmVerb.killWindow} ->
            IF Missing(a, 3) THEN "Please specify both session name and window name" ELSE ""
      [] a[1] = txmVerb.renameSession ->
            IF Missing(a, 3) THEN "Please specify both old session name and new session name" ELSE ""
      [] a[1] = txmVerb.renameWindow ->
            IF Missing(a, 4)
            THEN "Please specify session name, old window name, and new window name" ELSE ""
      [] a[1] = txmVerb.moveWindow ->
            IF Missing(a, 4)
            THEN "Please specify source session, window name, and destination session" ELSE ""
      [] a[1] = txmVerb.swapWindow ->
            IF Missing(a, 4)
            THEN "Please specify session name, first window name, and second window name" ELSE ""
      [] a[1] \in {txmVerb.splitWindow, txmVerb.listPanes} ->
            IF Missing(a, 3) THEN "Please specify session name and window name" ELSE ""
      [] a[1] = txmVerb.killPane ->
            IF Missing(a, 4)
            THEN "Please specify session name, window name, and pane number" ELSE ""
      [] a[1] = txmVerb.resizePane ->
            IF getArg(a, 6, <<>>) # <<>> /\ Atoi(getArg(a, 6, <<>>)).err
            THEN "Size must be a number"
            ELSE IF Missing(a, 4)
            THEN "Please specify session name, window name, pane number, and direction (U/D/L/R)"
            ELSE ""
      [] a[1] = txmVerb.sendKeys ->
            IF Missing(a, 5)
            THEN "Please specify session name, window name, pane number, and keys to send" ELSE ""
      [] OTHER -> ""

\* the handler each `case` calls, with the arguments it reads by getArg
Handle(rs, b, a) ==
    CASE a[1] = txmVerb.create        -> createSession(rs, b, a[2])
      [] a[1] = txmVerb.list          -> listSessions(rs, b)
      [] a[1] = txmVerb.attach        -> attachSession(rs, b, a[2])
      [] a[1] = txmVerb.detach        -> detachSession(rs, b)
      [] a[1] = txmVerb.delete        -> killSession(rs, b, a[2])
      [] a[1] = txmVerb.nuke          -> nukeAllSessions(rs, b)
      [] a[1] = txmVerb.newWindow     -> newWindow(rs, b, a[2], a[3])
      [] a[1] = txmVerb.listWindows   -> listWindows(rs, b, a[2])
      [] a[1] = txmVerb.killWindow    -> killWindow(rs, b, a[2], a[3])
      [] a[1] = txmVerb.nextWindow    -> nextWindow(rs, b, a[2])
      [] a[1] = txmVerb.prevWindow    -> previousWindow(rs, b, a[2])
      [] a[1] = txmVerb.renameSession -> renameSession(rs, b, a[2], a[3])
      [] a[1] = txmVerb.renameWindow  -> renameWindow(rs, b, a[2], a[3], a[4])
      [] a[1] = txmVerb.moveWindow    -> moveWindow(rs, b, a[2], a[3], a[4])
      [] a[1] = txmVerb.swapWindow    -> swapWindow(rs, b, a[2], a[3], a[4])
      [] a[1] = txmVerb.splitWindow   -> splitWindow(rs, b, a[2], a[3], getArg(a, 4, <<"v">>))
      [] a[1] = txmVerb.listPanes     -> listPanes(rs, b, a[2], a[3])
      [] a[1] = txmVerb.killPane      -> killPane(rs, b, a[2], a[3], a[4])
      [] a[1] = txmVerb.resizePane    ->
            resizePane(rs, b, a[2], a[3], a[4], getArg(a, 5, <<"U">>),
                       IF getArg(a, 6, <<>>) # <<>> THEN Atoi(a[6]).n ELSE 5)
      [] a[1] = txmVerb.sendKeys      -> sendKeys(rs, b, a[2], a[3], a[4], a[5])

\* one `case` of main's switch: the usage error, help and exit status 1, or
\* the handler and, the switch left, the end of main with exit status 0;
\* fnOut.sessions are the sessions the run leaves behind
DispatchCase ==
    IF UsageError(args) # ""
    THEN /\ Exit(1, <<Log("ERROR", UsageError(args), <<>>)>> \o HelpText)
         /\ UNCHANGED <<spawned, fnOut>>
    ELSE \E fails \in FailSets :
            \E rs \in {Handle([NewRun(fails, fnIn.sessions) EXCEPT !.actor = fnIn.actor],
                               sm.currentBackend, args)} :
                /\ spawned' = spawned \o rs.cmds
                /\ fnOut' = [sessions |-> rs.sessions]
                /\ Exit(0, rs.out)

\* case "create", "attach", "detach", "delete", "nuke"
DispatchSessionVerb ==
    /\ pc = "dispatch"
    /\ Len(args) >= 1
    /\ args[1] \in SessionVerbs
    /\ DispatchCase
    /\ UNCHANGED <<hostVars, args, verbose, sm, fnIn, lastSet>>

\* case "new-window" ... "split-window"
DispatchWindowVerb ==
    /\ pc = "dispatch"
    /\ Len(args) >= 1
    /\ args[1] \in WindowVerbs
    /\ DispatchCase
    /\ UNCHANGED <<hostVars, args, verbose, sm, fnIn, lastSet>>

\* case "list-panes", "kill-pane", "resize-pane", "send-keys"
DispatchPaneVerb ==
    /\ pc = "dispatch"
    /\ Len(args) >= 1
    /\ args[1] \in PaneVerbs
    /\ DispatchCase
    /\ UNCHANGED <<hostVars, args, verbose, sm, fnIn, lastSet>>

-----------------------------------------------------------------------------
(* SpecVerb: one run of main with a session, window or pane verb on a host  *)
(* with one multiplexer, or none, installed.  fnIn.sessions are the         *)
(* sessions the multiplexer holds when the run starts; spawned records the  *)
(* subprocesses in order, each with the status it returned.                 *)

\* session, window and key names typed by the user
sS == <<"s">>
sT == <<"t">>
sW == <<"w">>
sK == <<"k">>

sMysession == <<"m","y","s","e","s","s","i","o","n">>
sWin0 == <<"w","i","n","0">>

\* pane numbers typed by the user
PaneArgs == {Itoa(n) : n \in 0..MaxPane} \cup {<<"x">>}

\* directions and sizes typed by the user
DirArgs == {<<"U">>, <<"D">>, <<"L">>, <<"R">>, <<"x">>}

SizeArgs == {<<"2">>, <<"+","1">>, <<"0","3">>, <<"-","1">>, <<"x">>}

VerbArgs ==
    {<<v>> : v \in {txmVerb.create, txmVerb.list, txmVerb.detach, txmVerb.nuke, txmVerb.newWindow,
                    txmVerb.killPane, sHelp, sBogusVerb, sConfig}}
    \cup {<<v, n>> : v \in {txmVerb.create, txmVerb.attach, txmVerb.delete, txmVerb.listWindows,
                            txmVerb.nextWindow, txmVerb.prevWindow, txmVerb.renameSession,
                            txmVerb.splitWindow},
                     n \in {sS, sT}}
    \cup {<<v, sS, sW>> : v \in {txmVerb.newWindow, txmVerb.killWindow, txmVerb.renameSession,
                                 txmVerb.splitWindow, txmVerb.listPanes, txmVerb.renameWindow,
                                 txmVerb.sendKeys}}
    \cup {<<v, sS, sW, n>> : v \in {txmVerb.renameWindow, txmVerb.moveWindow, txmVerb.swapWindow},
                             n \in {sS, sT}}
    \cup {<<txmVerb.splitWindow, sS, sW, d>> : d \in {<<"v">>, <<"h">>, <<"x">>}}
    \cup {<<txmVerb.killPane, sS, sW, p>> : p \in PaneArgs}
    \cup {<<txmVerb.sendKeys, sS, sW, p, sK>> : p \in PaneArgs}
    \cup {<<txmVerb.resizePane, sS, sW, p>> : p \in {<<"1">>}}
    \cup {<<txmVerb.resizePane, sS, sW, p, d>> : p \in {<<"0">>, <<"2">>}, d \in DirArgs}
    \cup {<<txmVerb.resizePane, sS, sW, p, d, n>> : p \in {<<"1">>, <<"2">>}, d \in DirArgs, n \in SizeArgs}
    \cup {<<txmVerb.resizePane, sS, <<>>, <<"1">>, <<"U">>, n>> : n \in {<<"2">>, <<"x">>}}
    \cup {<<txmVerb.resizePane, sMysession, sWin0, <<"1">>, <<"R">>, <<"1","0">>>>}
    \cup {<<sConfig, sSet, sBackend>>, <<sConfig, sGet>>, <<sConfig, sShow>>, <<>>}

\* the sessions a multiplexer can hold when the run starts
HostSessions ==
    { <<>>,
      <<[pid |-> <<"1">>, name |-> sS]>>,
      <<[pid |-> <<"1">>, name |-> sS], [pid |-> <<"2">>, name |-> sT]>>,
      <<[pid |-> <<"1">>, name |-> sS], [pid |-> <<"2">>, name |-> sS]>>,
      <<[pid |-> <<"1">>, name |-> sS \o sT]>>,
      <<[pid |-> <<"3">>, name |-> sMysession]>> }

VerbHosts == {{}, {BackendTmux}, {BackendZellij}, {BackendScreen}}

VerbInit ==
    /\ hostPath \in VerbHosts
    /\ hostCommon = {}
    /\ homeOK = TRUE
    /\ envBackend = <<>>
    /\ files = [p \in 1..3 |-> NoFile]
    /\ pc = "new"
    /\ args \in VerbArgs
    /\ verbose = FALSE
    /\ sm = ZeroSM
    /\ out = <<>>
    /\ exitCode = -1
    /\ spawned = <<>>
    /\ lastSet = <<>>
    /\ fnIn \in {[sessions |-> s, actor |-> NoActor] : s \in HostSessions}
    /\ fnOut = <<>>

VerbNext ==
    \/ MainNewSessionManager
    \/ MainCheckBackend
    \/ DispatchNoArgs
    \/ DispatchList
    \/ DispatchSessionVerb
    \/ DispatchWindowVerb
    \/ DispatchPaneVerb
    \/ DispatchConfigSet
    \/ DispatchConfigGet
    \/ DispatchConfigOther
    \/ DispatchHelp
    \/ DispatchInvalid

SpecVerb == VerbInit /\ [][VerbNext]_vars

-----------------------------------------------------------------------------
(* Exit status and usage errors of the verbs *)

\* the run was a session, window or pane verb
HandlerVerb ==
    /\ args # <<>>
    /\ args[1] \in SessionVerbs \cup WindowVerbs \cup PaneVerbs \cup {txmVerb.list}

\* the handler's last word was an error: its operation failed
HandlerFailed == out # <<>> /\ out[Len(out)].lvl = "ERROR"

\* C12: for every session, window or pane verb, a run whose adapter
\* operation failed (and printed its error) ends with a non-zero exit
\* status; the status is zero only when the operation succeeded.
C12_FailureExitsNonZero ==
    (pc = "exited" /\ HandlerVerb /\ HandlerFailed) => exitCode # 0

\* config set without key or value, config get without key
ConfigArgMissing(a) ==
    /\ a # <<>>
    /\ a[1] = sConfig
    /\ \/ getArg(a, 2, <<>>) = sSet /\ Missing(a, 4)
       \/ getArg(a, 2, <<>>) = sGet /\ Missing(a, 3)

\* a required positional argument is missing
ArgMissing(a) ==
    \/ a # <<>> /\ \E n \in 2..5 : Missing(a, n) /\ UsageError(a) # ""
    \/ ConfigArgMissing(a)

\* C13: for every verb, config included, a missing required argument or an
\* unrecognised verb makes the dispatcher (reached when some backend is
\* installed) print an error and the help text and exit non-zero, and no
\* backend subprocess is started.
C13_UsageErrorPrintsHelp ==
    (/\ pc = "exited" /\ ~FatalReported
     /\ args # <<>> /\ (ArgMissing(args) \/ args[1] \notin Verbs)) =>
        /\ \E i \in 1..Len(out) : out[i].lvl = "ERROR"
        /\ \E i \in 1..Len(out) : out[i].lvl = "help"
        /\ exitCode # 0
        /\ spawned = <<>>

-----------------------------------------------------------------------------
(* SpecAdapter: one call of a pane or window adapter of screen.go on a      *)
(* SessionManager whose backend is screen.  fnIn is the call, fnOut the     *)
(* error result, spawned the subprocesses the adapter started.              *)

\* screenRenameSession, screenMoveWindow, screenSwapWindow, screenListPanes,
\* screenKillPane, screenResizePane, screenSendKeys: `return fmt.Errorf(...)`
\* and nothing else
screenUnsupported(rs) == Fail(rs)

\* screenSplitWindow
screenSplitWindow(rs, session, window, direction) ==
    IF direction = <<"h">>
    THEN Exec(rs, "screen", <<screenArg.S, session, screenArg.X, screenArg.split, screenArg.v>>)
    ELSE Fail(rs)

\* the adapters of screen.go that start no subprocess
ScreenUnsupportedOps ==
    {"screenRenameSession", "screenMoveWindow", "screenSwapWindow", "screenListPanes",
     "screenKillPane", "screenResizePane", "screenSendKeys"}

AdapterInit ==
    /\ hostPath \in {{}, {BackendScreen}}
    /\ hostCommon = {}
    /\ homeOK = TRUE
    /\ envBackend = <<>>
    /\ files = [p \in 1..3 |-> NoFile]
    /\ pc = "call"
    /\ ProcNone
    /\ sm = [ZeroSM EXCEPT !.currentBackend = BackendScreen]
    /\ fnIn \in {[op |-> op, session |-> s, window |-> sW, direction |-> dir, sessions |-> h] :
                    op \in ScreenUnsupportedOps \cup {"screenSplitWindow"}, s \in {sS, sT},
                    dir \in {<<"v">>, <<"h">>, <<"x">>}, h \in HostSessions}
    /\ fnOut = <<>>

\* the adapter returns: fnOut.err is its error result
AdapterReturn(rs) ==
    /\ pc' = "returned"
    /\ spawned' = spawned \o rs.cmds
    /\ fnOut' = [op |-> fnIn.op, err |-> rs.err]
    /\ UNCHANGED <<hostVars, args, verbose, sm, out, exitCode, fnIn, lastSet>>

\* a call of one of the adapters that are a bare error
CallScreenUnsupported ==
    /\ pc = "call"
    /\ fnIn.op \in ScreenUnsupportedOps
    /\ \E fails \in FailSets : AdapterReturn(screenUnsupported(NewRun(fails, fnIn.sessions)))

\* a call of screenSplitWindow(session, window, direction)
CallScreenSplitWindow ==
    /\ pc = "call"
    /\ fnIn.op = "screenSplitWindow"
    /\ \E fails \in FailSets :
          AdapterReturn(screenSplitWindow(NewRun(fails, fnIn.sessions),
                                          fnIn.session, fnIn.window, fnIn.direction))

AdapterNext ==
    \/ CallScreenUnsupported
    \/ CallScreenSplitWindow

SpecAdapter == AdapterInit /\ [][AdapterNext]_vars

\* C14: on the screen backend, split-window with direction h, list-panes,
\* kill-pane, resize-pane, send-keys, rename-session, move-window and
\* swap-window each end with an error and start no screen command.
C14_ScreenUnsupported ==
    (/\ pc = "returned"
     /\ fnOut.op = "screenSplitWindow" => fnIn.direction = <<"h">>) =>
        /\ fnOut.err
        /\ spawned = <<>>

-----------------------------------------------------------------------------
(* The zellij backend: operations without an equivalent, the focus walk *)

\* the run was a verb with complete arguments on the zellij backend
ZellijRun(verbs) ==
    /\ pc = "exited"
    /\ sm.currentBackend = BackendZellij
    /\ args # <<>>
    /\ args[1] \in verbs
    /\ UsageError(args) = ""

\* subprocess c is a `zellij ... action ...` command
IsAction(c) == \E i \in 1..Len(c.cmd) : c.cmd[i] = zellijArg.action

\* C15: on the zellij backend, rename-window, move-window, swap-window and
\* list-panes each fail as unsupported and issue no zellij action command.
C15_ZellijUnsupported ==
    ZellijRun({txmVerb.renameWindow, txmVerb.moveWindow, txmVerb.swapWindow, txmVerb.listPanes}) =>
        /\ HandlerFailed
        /\ \A i \in 1..Len(spawned) : ~IsAction(spawned[i])

\* the argv of `zellij -s session action ...`
ActionCmd(session, argv) == <<zellijArg.s, session, zellijArg.action>> \o argv

\* the three existence queries of a pane verb (sessionExists in the handler,
\* zellijSessionExists in the adapter and in zellijFocusPane) all ran and all
\* found the session
SessionFound ==
    /\ Len(spawned) >= 3
    /\ \A i \in 1..3 : spawned[i].cmd = <<zellijArg.listSessions>> /\ spawned[i].ok
    /\ IsInfix(args[2], ZellijListing(fnIn.sessions))

\* the pane number N of the run, 0 when os.Args[4] is no number
PaneIndex == IF Atoi(args[4]).err THEN 0 ELSE Atoi(args[4]).n

\* what the run started after the existence queries
AfterQueries(n) == SubSeq(spawned, n + 1, Len(spawned))

\* number of focus-next-pane commands of the run
WalkLen ==
    Cardinality({i \in 1..Len(spawned) :
                    spawned[i].cmd = ActionCmd(args[2], <<zellijArg.focusNextPane>>)})

\* rest starts with the focus reset (left, then up) and a walk of at most
\* N-1 focus-next-pane commands that stops at the first that fails
FocusWalked(rest) ==
    /\ Len(rest) >= 2 + WalkLen
    /\ rest[1].cmd = ActionCmd(args[2], <<zellijArg.moveFocusOrTab, zellijArg.left>>)
    /\ rest[2].cmd = ActionCmd(args[2], <<zellijArg.moveFocusOrTab, zellijArg.up>>)
    /\ WalkLen <= PaneIndex - 1
    /\ \A i \in 3..(2 + WalkLen) :
          /\ rest[i].cmd = ActionCmd(args[2], <<zellijArg.focusNextPane>>)
          /\ i < 2 + WalkLen => rest[i].ok
    /\ WalkLen < PaneIndex - 1 => ~rest[2 + WalkLen].ok

\* the resize direction word of the run, <<>> for an invalid direction
ResizeWord ==
    LET dir == getArg(args, 5, <<"U">>)
    IN  CASE dir = <<"U">> -> zellijArg.up
          [] dir = <<"D">> -> zellijArg.down
          [] dir = <<"L">> -> zellijArg.left
          [] dir = <<"R">> -> zellijArg.right
          [] OTHER -> <<>>

\* the size of the resize run
ResizeSize == IF getArg(args, 6, <<>>) = <<>> THEN 5 ELSE Atoi(args[6]).n

\* act is what the verb issues on the focused pane: close-pane once,
\* write-chars once, or resize up to size times, left at the first failure
ActionIssued(act) ==
    CASE args[1] = txmVerb.killPane ->
            /\ Len(act) = 1
            /\ act[1].cmd = ActionCmd(args[2], <<zellijArg.closePane>>)
      [] args[1] = txmVerb.sendKeys ->
            /\ Len(act) = 1
            /\ act[1].cmd = ActionCmd(args[2], <<zellijArg.writeChars, args[5]>>)
      [] args[1] = txmVerb.resizePane ->
            IF ResizeWord = <<>> THEN act = <<>>
            ELSE /\ Len(act) <= ResizeSize \/ act = <<>>
                 /\ \A i \in 1..Len(act) :
                       /\ act[i].cmd = ActionCmd(args[2], <<zellijArg.resize, ResizeWord>>)
                       /\ i < Len(act) => act[i].ok
                 /\ Len(act) < ResizeSize => (act # <<>> /\ ~act[Len(act)].ok)

\* the operation's result is the result of the action alone
ResultOfAction(act) ==
    HandlerFailed <=>
        IF act = <<>> THEN args[1] = txmVerb.resizePane /\ ResizeWord = <<>>
        ELSE ~act[Len(act)].ok

\* C16 as stated: on the zellij backend, kill-pane, resize-pane and
\* send-keys with pane index N >= 1 issue the focus reset (left, up), at most
\* N-1 focus-next-pane commands stopping at the first that fails, and then
\* the action command exactly once; the walk never makes the operation fail.
C16_FocusWalkThenActionOnce ==
    (ZellijRun({txmVerb.killPane, txmVerb.resizePane, txmVerb.sendKeys}) /\ PaneIndex >= 1) =>
        /\ Len(spawned) >= 3 + WalkLen
        /\ \E rest \in {SubSeq(spawned, Len(spawned) - 2 - WalkLen, Len(spawned))} :
              /\ FocusWalked(rest)
              /\ ActionIssued(<<rest[Len(rest)]>>)
              /\ HandlerFailed <=> ~rest[Len(rest)].ok

\* C16: on the zellij backend, when every existence query of the run finds
\* the session, kill-pane, resize-pane and send-keys with pane index N >= 1
\* issue the focus reset (left, up), at most N-1 focus-next-pane commands
\* stopping at the first that fails, and then the action: close-pane once,
\* write-chars once, or resize up to size times; the operation's result is
\* the action's result, whatever the walk did.
C16_FocusWalkThenAction ==
    (/\ ZellijRun({txmVerb.killPane, txmVerb.resizePane, txmVerb.sendKeys})
     /\ PaneIndex >= 1
     /\ SessionFound) =>
        \E rest \in {AfterQueries(3)} :
            /\ FocusWalked(rest)
            /\ ActionIssued(SubSeq(rest, 3 + WalkLen, Len(rest)))
            /\ ResultOfAction(SubSeq(rest, 3 + WalkLen, Len(rest)))

\* kill-pane s w 3 where the second focus-next-pane fails (only two panes):
\* close-pane is still issued and the operation succeeds
C16_Witness ==
    /\ ZellijRun({txmVerb.killPane})
    /\ PaneIndex = 3
    /\ SessionFound
    /\ WalkLen = 2
    /\ ~spawned[7].ok
    /\ spawned[Len(spawned)].cmd = ActionCmd(args[2], <<zellijArg.closePane>>)
    /\ spawned[Len(spawned)].ok
    /\ ~HandlerFailed

-----------------------------------------------------------------------------
(* The tmux backend: resize-pane *)

\* the positions of the resize-pane commands among the subprocesses
ResizeCalls == {i \in 1..Len(spawned) : spawned[i].cmd[1] = tmuxArg.resizePane}

\* C17: on the tmux backend, resize-pane <session> <window> <pane>
\* <direction> <size> issues the resize command with the flag -U, -D, -L, -R
\* for direction U, D, L, R, the size as its magnitude and the target
\* session:window.pane; the command is issued once the session was found.
C17_TmuxResizeCommand ==
    (/\ pc = "exited"
     /\ sm.currentBackend = BackendTmux
     /\ args # <<>>
     /\ args[1] = txmVerb.resizePane
     /\ UsageError(args) = ""
     /\ getArg(args, 5, <<"U">>) \in {<<"U">>, <<"D">>, <<"L">>, <<"R">>}
     /\ spawned # <<>>) =>
        /\ spawned[1].ok => Cardinality(ResizeCalls) = 1
        /\ \A i \in ResizeCalls :
              spawned[i].cmd = << <<"r","e","s","i","z","e","-","p","a","n","e">>,
                                  <<"-">> \o getArg(args, 5, <<"U">>),
                                  Itoa(ResizeSize),
                                  <<"-","t">>,
                                  args[2] \o <<":">> \o args[3] \o <<".">> \o args[4] >>

\* resize-pane mysession win0 1 R 10 issued `tmux resize-pane -R 10 -t
\* mysession:win0.1`
C17_Witness ==
    /\ pc = "exited"
    /\ sm.currentBackend = BackendTmux
    /\ args = <<txmVerb.resizePane, sMysession, sWin0, <<"1">>, <<"R">>, <<"1","0">>>>
    /\ Len(spawned) = 2
    /\ spawned[2].bin = "tmux"
    /\ spawned[2].ok
    /\ spawned[2].cmd = << <<"r","e","s","i","z","e","-","p","a","n","e">>, <<"-","R">>, <<"1","0">>,
                           <<"-","t">>,
                           <<"m","y","s","e","s","s","i","o","n",":","w","i","n","0",".","1">> >>
    /\ ~HandlerFailed

-----------------------------------------------------------------------------
(* Retries *)

\* an argument that is an option flag
IsFlag(a) == a # <<>> /\ Head(a) = "-"

IsWord(a) == ~IsFlag(a)

\* subprocess c only asks which sessions exist
IsQuery(c) ==
    c.cmd \in {<<tmuxArg.listSessions>>, <<zellijArg.listSessions>>, <<screenArg.ls>>}
        \/ c.cmd[1] = tmuxArg.hasSession

\* two subprocesses attempt the same action: the same program with the same
\* subcommand and operands, whatever the option flags
SameAction(c1, c2) ==
    /\ c1.bin = c2.bin
    /\ SelectSeq(c1.cmd, IsWord) = SelectSeq(c2.cmd, IsWord)

\* C18: no operation retries a failed subprocess call: once a command issued
\* for the operation has failed, no later command of the run attempts the
\* same action again.
C18_NoRetry ==
    \A i, j \in 1..Len(spawned) :
        (i < j /\ ~spawned[i].ok /\ ~IsQuery(spawned[i])) => ~SameAction(spawned[i], spawned[j])

-----------------------------------------------------------------------------
(* The selector and the search path *)

\* C19: selectBestBackend is pure: its result is a function of the
\* configuration and the availability it was given (the fields of the
\* SessionManager), so the backend it returned is the one it returns for
\* every state of the search path, which it does not look at.
C19_SelectorIsPure ==
    pc = "selected" =>
        \A path \in SUBSET Backends : selectBestBackend(sm, path) = sm.currentBackend

-----------------------------------------------------------------------------
(* The backend in use after construction *)

\* NewSessionManager has returned
Constructed == pc \in {"check", "dispatch", "exited"} /\ ~sm.config.nil

-----------------------------------------------------------------------------
(* The existence check in front of the handlers *)

\* a session of the host is called name
ExactlyNamed(name) == \E i \in 1..Len(fnIn.sessions) : fnIn.sessions[i].name = name

\* the run was one of the verbs, with complete arguments, on an installed
\* backend b
VerbRun(verbs, b) ==
    /\ pc = "exited"
    /\ args # <<>>
    /\ args[1] \in verbs
    /\ UsageError(args) = ""
    /\ sm.currentBackend = b
    /\ b \in hostPath

\* the run started a subprocess that is not an existence query
ActionStarted == \E i \in 1..Len(spawned) : ~IsQuery(spawned[i])

\* C30: on the zellij and screen backends the existence check is true
\* exactly when a listed session is called name: with the query answered,
\* attach goes on to its attach command if and only if a session of
\* exactly that name is listed.
C30_ExactNameMatch ==
    \A b \in {BackendZellij, BackendScreen} :
        (/\ VerbRun({txmVerb.attach}, b)
         /\ spawned # <<>>
         /\ spawned[1].ok) =>
            (ActionStarted <=> ExactlyNamed(args[2]))

\* the verbs whose handler asks for the session first
GuardedVerbs ==
    {txmVerb.attach, txmVerb.renameSession, txmVerb.renameWindow, txmVerb.moveWindow,
     txmVerb.swapWindow, txmVerb.splitWindow, txmVerb.listPanes, txmVerb.killPane,
     txmVerb.resizePane, txmVerb.sendKeys}

\* the multiplexer's answer to the existence query for name is "absent":
\* tmux knows no session of the name, no line of the zellij listing holds
\* the name, no identifier of the screen listing holds "." + name
NotListed(b, name) ==
    CASE b = BackendTmux   -> ~ExactlyNamed(name)
      [] b = BackendZellij -> ~IsInfix(name, ZellijListing(fnIn.sessions))
      [] b = BackendScreen ->
            \A i \in 1..Len(fnIn.sessions) :
                ~IsInfix(<<".">> \o name, ScreenID(fnIn.sessions[i]))

\* the k-th subprocess of the run was an existence query that failed
QueryFailed(k) == Len(spawned) >= k /\ IsQuery(spawned[k]) /\ ~spawned[k].ok

\* the existence check of the run reports a session absent: the named
\* session or, for move-window, the source or the destination session
ReportedAbsent(b) ==
    \/ NotListed(b, args[2])
    \/ QueryFailed(1)
    \/ args[1] = txmVerb.moveWindow /\ (NotListed(b, args[4]) \/ QueryFailed(2))

\* C29: for attach, rename-session, rename-window, move-window, swap-window,
\* split-window, list-panes, kill-pane, resize-pane and send-keys on every
\* backend, when the existence check reports the session absent, an error
\* is logged and no action command is started.
C29_ExistenceGuard ==
    \A b \in Backends :
        (VerbRun(GuardedVerbs, b) /\ ReportedAbsent(b)) =>
            /\ \E i \in 1..Len(out) : out[i].lvl = "ERROR"
            /\ ~ActionStarted

\* move-window found the source session and missed the destination
C29_Witness ==
    /\ VerbRun({txmVerb.moveWindow}, BackendTmux)
    /\ Len(spawned) = 2
    /\ spawned[1].ok
    /\ NotListed(BackendTmux, args[4])
    /\ HandlerFailed

-----------------------------------------------------------------------------
(* delete on the screen backend *)

\* the quit command for a session identifier
QuitCmd(id) == [bin |-> "screen", cmd |-> <<screenArg.X, screenArg.S, id, screenArg.quit>>]

\* the quit commands for the sessions called name, in the order of the listing
RECURSIVE QuitsFor(_, _)
QuitsFor(sessions, name) ==
    IF sessions = <<>> THEN <<>>
    ELSE (IF Head(sessions).name = name THEN <<QuitCmd(ScreenID(Head(sessions)))>> ELSE <<>>)
             \o QuitsFor(Tail(sessions), name)

\* C24: on the screen backend, delete <name>, its listing obtained, starts
\* one quit command for every listed session whose name part is <name>,
\* addressed as pid.name, and for no other session; when no quit succeeded
\* it reports that the session does not exist.
C24_ScreenDeleteByIdentifier ==
    (/\ VerbRun({txmVerb.delete}, BackendScreen)
     /\ spawned # <<>>) =>
        /\ spawned[1].cmd = <<screenArg.ls>>
        /\ [i \in 1..(Len(spawned) - 1) |->
               [bin |-> spawned[i + 1].bin, cmd |-> spawned[i + 1].cmd]]
              = (IF spawned[1].ok THEN QuitsFor(fnIn.sessions, args[2]) ELSE <<>>)
        /\ (\A i \in 2..Len(spawned) : ~spawned[i].ok) =>
              out = <<Log("ERROR", "Session '%s' does not exist", args[2])>>

\* two sessions of the name were listed and both were quit
C24_Witness ==
    /\ VerbRun({txmVerb.delete}, BackendScreen)
    /\ Len(spawned) = 3
    /\ \A i \in 1..3 : spawned[i].ok
    /\ spawned[2].cmd # spawned[3].cmd
    /\ out[Len(out)].lvl = "INFO"

-----------------------------------------------------------------------------
(* kill-window and split-window on the screen backend *)

\* C26: on the screen backend kill-window starts a screen command that acts
\* on the session's current window; it does not end as an
\* unsupported-operation failure.
C26_ScreenKillWindowActs ==
    VerbRun({txmVerb.killWindow}, BackendScreen) =>
        /\ \E i \in 1..Len(spawned) : spawned[i].bin = "screen" /\ ~IsQuery(spawned[i])
        /\ (\A i \in 1..Len(spawned) : spawned[i].ok) => ~HandlerFailed

\* C25: the adapter function screenSplitWindow starts the screen split
\* command for direction v and refuses direction h without a command.
C25_ScreenSplitVertical ==
    (pc = "returned" /\ fnOut.op = "screenSplitWindow") =>
        /\ fnIn.direction = <<"v">> =>
              /\ Len(spawned) = 1
              /\ spawned[1].cmd[Len(spawned[1].cmd)] = screenArg.split
        /\ fnIn.direction = <<"h">> => (fnOut.err /\ spawned = <<>>)

-----------------------------------------------------------------------------
(* The backend of the run *)

\* C28: whenever at least one of tmux, zellij and screen is available at
\* startup, the backend selected for the run is an available one; and a
\* run ends with the fatal "none installed" error if and only if no
\* backend is available.
C28_SelectedIsAvailable ==
    /\ (pc \in {"check", "dispatch", "exited"} /\ ~NoneInstalled) => Avail(sm.currentBackend)
    /\ pc \in {"exited", "panic"} => (FatalReported <=> NoneInstalled)

-----------------------------------------------------------------------------
(* SpecLife: createSession, killSession and sessionExists called one after  *)
(* the other on one backend, as TestSessionManager does; nobody else        *)
(* touches the sessions.  fnIn.sessions are the sessions of the host, out   *)
(* and spawned belong to the last call, fnOut says what it was.             *)

MaxSessions == 2

LifeNames == {sS, sS \o sT}

\* the subprocess call the environment makes fail during one handler, if any
LifeFails == {{}} \cup {{k} : k \in 1..MaxSessions + 1}

LifeInit ==
    /\ hostPath \in {{b} : b \in Backends}
    /\ hostCommon = {}
    /\ homeOK = TRUE
    /\ envBackend = <<>>
    /\ files = [p \in 1..3 |-> NoFile]
    /\ pc = "call"
    /\ ProcNone
    /\ sm \in {[ZeroSM EXCEPT !.currentBackend = b] : b \in hostPath}
    /\ fnIn \in {[sessions |-> h, actor |-> NoActor] : h \in HostSessions}
    /\ fnOut = [op |-> "none", name |-> <<>>, ok |-> FALSE, ran |-> FALSE, after |-> <<>>]

\* the handler returns: the host keeps the sessions it left behind
LifeReturn(op, name, rs, ok) ==
    /\ fnIn' = [fnIn EXCEPT !.sessions = rs.sessions]
    /\ spawned' = rs.cmds
    /\ out' = rs.out
    /\ fnOut' = [op |-> op, name |-> name, ok |-> ok,
                 ran |-> \A k \in 1..Len(rs.cmds) : k \notin rs.fails,
                 after |-> [op |-> fnOut.op, name |-> fnOut.name, ok |-> fnOut.ok]]
    /\ UNCHANGED <<hostVars, pc, args, verbose, sm, exitCode, lastSet>>

\* sm.createSession(name); it succeeded when its last word is not an error
CallCreateSession ==
    /\ pc = "call"
    /\ Len(fnIn.sessions) < MaxSessions
    /\ \E name \in LifeNames, fails \in LifeFails :
          \E rs \in {createSession(NewRun(fails, fnIn.sessions), sm.currentBackend, name)} :
              LifeReturn("createSession", name, rs, rs.out[Len(rs.out)].lvl = "INFO")

\* sm.killSession(name)
CallKillSession ==
    /\ pc = "call"
    /\ \E name \in LifeNames, fails \in LifeFails :
          \E rs \in {killSession(NewRun(fails, fnIn.sessions), sm.currentBackend, name)} :
              LifeReturn("killSession", name, rs, rs.out[Len(rs.out)].lvl = "INFO")

\* sm.sessionExists(name)
CallSessionExists ==
    /\ pc = "call"
    /\ fnOut.op # "sessionExists"
    /\ \E name \in LifeNames, fails \in {{}, {1}} :
          \E rs \in {sessionExists(NewRun(fails, fnIn.sessions), sm.currentBackend, name)} :
              LifeReturn("sessionExists", name, rs, rs.res)

LifeNext ==
    \/ CallCreateSession
    \/ CallKillSession
    \/ CallSessionExists

SpecLife == LifeInit /\ [][LifeNext]_vars

\* sessionExists(name) was called right after op(name) succeeded, and its
\* query subprocess ran
RightAfter(op) ==
    /\ fnOut.op = "sessionExists"
    /\ fnOut.ran
    /\ fnOut.after.op = op
    /\ fnOut.after.name = fnOut.name
    /\ fnOut.after.ok

\* C21: on every backend, for every name and every set of other sessions,
\* sessionExists(name) is true right after createSession(name) succeeded
\* and false right after killSession(name) succeeded.
C21_Lifecycle ==
    /\ RightAfter("createSession") => fnOut.ok
    /\ RightAfter("killSession") => ~fnOut.ok

-----------------------------------------------------------------------------
(* SpecRace: one run of main on a host where another process creates or     *)
(* deletes session s once, between two subprocess calls of the run          *)
(* (fnIn.actor).                                                            *)

RaceArgs ==
    {<<>>, <<txmVerb.list>>, <<sHelp>>, <<sBogusVerb>>,
     <<sConfig, sSet, sBackend>>, <<sConfig, sGet>>, <<sConfig, sShow>>,
     <<txmVerb.create, sS>>, <<txmVerb.attach, sS>>, <<txmVerb.delete, sS>>,
     <<txmVerb.newWindow, sS, sW>>, <<txmVerb.renameWindow, sS, sW, sT>>,
     <<txmVerb.killPane, sS, sW, <<"2">>>>, <<txmVerb.sendKeys, sS, sW, <<"1">>, sK>>}

RaceSessions ==
    { <<>>,
      <<[pid |-> <<"1">>, name |-> sS]>>,
      <<[pid |-> <<"1">>, name |-> sS], [pid |-> <<"2">>, name |-> sT]>> }

\* the other process: idle, or acting once on session s
Actors ==
    {NoActor} \cup {[at |-> k, del |-> x, name |-> sS] : k \in 1..MaxCalls, x \in BOOLEAN}

RaceInit ==
    /\ hostPath \in {{b} : b \in Backends}
    /\ hostCommon = {}
    /\ homeOK = TRUE
    /\ envBackend = <<>>
    /\ files = [p \in 1..3 |-> NoFile]
    /\ pc = "new"
    /\ args \in RaceArgs
    /\ verbose = FALSE
    /\ sm = ZeroSM
    /\ out = <<>>
    /\ exitCode = -1
    /\ spawned = <<>>
    /\ lastSet = <<>>
    /\ fnIn \in {[sessions |-> s, actor |-> a] : s \in RaceSessions, a \in Actors}
    /\ fnOut = <<>>

SpecRace == RaceInit /\ [][VerbNext]_vars

\* the run's last word was a success message
HandlerSucceeded == out # <<>> /\ out[Len(out)].lvl = "INFO"

\* C22: on the zellij backend createSession(name) reports success only if
\* the create command returned success and the session-list query after it
\* found the name; when the create command returned success and the
\* session is not listed afterwards, it reports failure.
C22_ZellijCreateVerified ==
    VerbRun({txmVerb.create}, BackendZellij) =>
        /\ HandlerSucceeded =>
              /\ Len(spawned) = 3
              /\ spawned[2].cmd = <<zellijArg.attach, zellijArg.createBackground, args[2]>>
              /\ spawned[2].ok
              /\ spawned[3].cmd = <<zellijArg.listSessions>>
              /\ spawned[3].ok
              /\ IsInfix(args[2], ZellijListing(fnOut.sessions))
        /\ (/\ Len(spawned) >= 2
            /\ spawned[2].ok
            /\ ~IsInfix(args[2], ZellijListing(fnOut.sessions))) => HandlerFailed

\* the create command succeeded, the session was gone when the list was
\* queried, and the run reported failure
C22_Witness ==
    /\ VerbRun({txmVerb.create}, BackendZellij)
    /\ Len(spawned) = 3
    /\ spawned[2].ok
    /\ spawned[3].ok
    /\ ~IsInfix(args[2], ZellijListing(fnOut.sessions))
    /\ HandlerFailed

\* the verbs of C27: attach, delete, window and pane verbs
RaceVerbs ==
    {txmVerb.attach, txmVerb.delete, txmVerb.renameWindow, txmVerb.killPane, txmVerb.sendKeys}

\* every existence query of the run found session args[2], the other
\* process removed it right before subprocess k, and subprocess k is the
\* first command that is not a query
RacedAt(k) ==
    /\ fnIn.actor.del
    /\ fnIn.actor.at = k
    /\ fnIn.actor.name = args[2]
    /\ ExactlyNamed(args[2])
    /\ k >= 2
    /\ k <= Len(spawned)
    /\ \A i \in 1..(k - 1) : IsQuery(spawned[i]) /\ spawned[i].ok
    /\ ~IsQuery(spawned[k])

\* C27: when attach, delete or a window or pane verb has passed its
\* existence check and the session is removed before the action command,
\* the command is still started against the missing session and fails; the
\* run asks for the session no more, does not attempt the command again and
\* reports the failure.
C27_RaceNotRechecked ==
    \A b \in Backends, k \in 1..MaxCalls :
        (VerbRun(RaceVerbs, b) /\ RacedAt(k)) =>
            /\ ~spawned[k].ok
            /\ \A j \in (k + 1)..Len(spawned) :
                  ~IsQuery(spawned[j]) /\ ~SameAction(spawned[k], spawned[j])
            /\ HandlerFailed

\* the race happened: the existence query succeeded, the session went, the action ran
C27_Raced ==
    \E k \in 1..MaxCalls : VerbRun({txmVerb.attach}, BackendTmux) /\ RacedAt(k)

-----------------------------------------------------------------------------
(* nuke on the zellij backend *)

\* the session name a per-session delete command was given: its last argument
DeletedName(c) == c.cmd[Len(c.cmd)]

\* C23: on the zellij backend nuke first starts delete-all-sessions -y -f;
\* it starts anything further only when that command failed, and then the
\* session listing first; every later command is a delete-session whose
\* session argument holds no escape character and is the name of a listed
\* session.
C23_ZellijNukeFallback ==
    (/\ VerbRun({txmVerb.nuke}, BackendZellij)
     /\ spawned # <<>>) =>
        /\ spawned[1].cmd = <<zellijArg.deleteAllSessions, zellijArg.y, zellijArg.f>>
        /\ Len(spawned) > 1 =>
              /\ ~spawned[1].ok
              /\ spawned[2].cmd = <<zellijArg.listSessions>>
        /\ \A i \in 3..Len(spawned) :
              /\ spawned[2].ok
              /\ spawned[i].cmd[1] = zellijArg.deleteSession
              /\ \A j \in 1..Len(DeletedName(spawned[i])) : DeletedName(spawned[i])[j] # ESC
              /\ ExactlyNamed(DeletedName(spawned[i]))

\* the native command failed, the listing showed two sessions in colour and
\* both were deleted by name
C23_Witness ==
    /\ VerbRun({txmVerb.nuke}, BackendZellij)
    /\ Len(spawned) = 4
    /\ ~spawned[1].ok
    /\ \A i \in 2..4 : spawned[i].ok
    /\ Len(fnIn.sessions) = 2
    /\ DeletedName(spawned[3]) = fnIn.sessions[1].name
    /\ DeletedName(spawned[4]) = fnIn.sessions[2].name
    /\ HandlerSucceeded

=============================================================================
